---------------------------- MODULE Spec2Model ----------------------------
(***************************************************************************)
(* Verification model of the Avito catalog harvester:                      *)
(*   - ScraperService.scrape_all and its pagination helpers (SpecCrawl),   *)
(*   - run_pipeline's resource handling (SpecPipeline),                    *)
(*   - NormalizerService / AIService batch normalization (SpecNorm),       *)
(*   - the async_retry / sync_retry wrappers (SpecRetry).                  *)
(* The browser, the catalog pages, the classifier and the wrapped          *)
(* operation are the environment: what the code reads from them is drawn   *)
(* from small sets at the point where the code reads it.                   *)
(***************************************************************************)
EXTENDS Integers, Sequences, FiniteSets, TLC

VARIABLES
    \* ---- ScraperService (scraper_service.py) ----
    pc,                      \* position inside scrape_all
    visited_urls,            \* self._visited_urls
    seen_avito_ids,          \* self._seen_avito_ids
    total_pages,             \* self._total_pages
    current_page_num,        \* scrape_all local
    consecutive_empty_pages, \* scrape_all local
    all_products,            \* scrape_all local, the returned list
    attempt,                 \* loop counter of _find_next_page_url_with_retry
    shift,                   \* loop counter of _navigate_pagination_window
    next_url,                \* URL resolved for the next page
    page_url,                \* page.url of the browser
    raw_store,               \* table raw_products
    runs,                    \* number of scrape_all invocations so far
    max_pages,               \* settings.max_pages
    \* ---- history of the current crawl run ----
    stop_reason,             \* which exit of scrape_all was taken
    extracted_ids,           \* ids of all products the parsed pages yielded
    persisted_ids,           \* ids written by save_raw_products in this run
    last_new_ids,            \* ids of new_products of the last parsed page
    last_page,               \* products and duplicate_count of that page
    last_probe,              \* re-probe of the page count for the page to parse
    revisit_nav,             \* a goto targeted an identity already visited
    pages_parsed,            \* number of _parse_current_page calls
    \* ---- run_pipeline (__main__.py) and the resources it owns ----
    pl_pc,                   \* position inside run_pipeline
    pl_exc,                  \* exception on its way out of run_pipeline
    db,                      \* SQLiteProductRepository._connection
    br,                      \* BrowserService handles (not None = TRUE)
    br_live,                 \* browser-side resources acquired, not released
    ai,                      \* AIService._session
    pl_launch,               \* history: how launch ended and what it left open
    \* ---- NormalizerService.normalize_all ----
    norm_pc,                 \* position inside normalize_all
    norm_exc,                \* exception that left normalize_all
    norm_store,              \* table normalized_products
    batch_size,              \* AISettings.batch_size
    ai_max_retries,          \* AISettings.max_retries
    batches,                 \* batches of the running pass
    batch_index,             \* number of the batch being processed
    ai_attempt,              \* attempt counter of the retry wrapper
    all_normalized,          \* the list normalize_all returns
    norm_runs,               \* normalize_all invocations so far
    last_batch,              \* history: batch handled by the last _process_batch
    last_text,               \* history: content of the classifier's last answer
    last_failure,            \* history: how the last classifier call failed
    last_produced,           \* history: what the last _process_batch returned
    store_before,            \* history: normalized_products before that batch
    norm_trace,              \* history: requests, writes and delays of the pass
    \* ---- the retry wrapper (utils/retry.py) ----
    rt_pc,                   \* position inside wrapper
    rt_max_retries,          \* max_retries
    rt_backoff,              \* backoff_factor
    rt_delay,                \* current_delay
    rt_delay0,               \* delay, as configured
    rt_attempt,              \* attempt
    rt_history,              \* history: outcome of every invocation of func
    rt_sleeps,               \* history: duration of every sleep
    rt_result,               \* what wrapper returned or raised
    \* ---- direct use of the repository ----
    st_last,                 \* history: products given to the last save call
    st_before,               \* history: raw_products before that call
    st_failed,               \* history: that call raised
    st_committed,            \* raw_products as committed to the database file
    \* ---- direct use of BrowserService ----
    br_launches,             \* number of launch calls
    br_closes,               \* number of close calls
    br_last,                 \* history: the last close call
    br_nav,                  \* history: the last navigate call
    br_wait,                 \* history: the last wait for an element
    br_check                 \* history: the last _check_page_status call

crawlCtl == <<pc, visited_urls, seen_avito_ids, total_pages, current_page_num,
              consecutive_empty_pages, all_products, attempt, shift, next_url,
              page_url, runs, max_pages, stop_reason, extracted_ids,
              persisted_ids, last_new_ids, last_page, last_probe, revisit_nav,
              pages_parsed>>

crawlVars == <<crawlCtl, raw_store>>

pipeVars == <<pl_pc, pl_exc, db, br, br_live, ai, pl_launch>>

normVars == <<norm_pc, norm_exc, norm_store, batch_size, ai_max_retries,
              batches, batch_index, ai_attempt, all_normalized, norm_runs,
              last_batch, last_text, last_failure, last_produced, store_before,
              norm_trace>>

retryVars == <<rt_pc, rt_max_retries, rt_backoff, rt_delay, rt_delay0, rt_attempt,
               rt_history, rt_sleeps, rt_result>>

storeVars == <<st_last, st_before, st_failed, st_committed>>

browserVars == <<br_launches, br_closes, br_last, br_nav, br_wait, br_check>>

vars == <<crawlVars, pipeVars, normVars, retryVars, storeVars, browserVars>>

\* what the actions of one component leave alone
notCrawl == <<pipeVars, normVars, retryVars, storeVars, browserVars>>
notPipeCrawl == <<normVars, retryVars, storeVars, browserVars>>
notNorm == <<crawlVars, pipeVars, retryVars, storeVars, browserVars>>
notRetry == <<crawlVars, pipeVars, normVars, storeVars, browserVars>>
notStore == <<crawlCtl, pipeVars, normVars, retryVars, browserVars>>
notBrowser == <<crawlVars, pl_pc, pl_exc, db, ai, pl_launch, normVars, retryVars,
               storeVars>>

--------------------------------------------------------------------------
\* Bounds of the model
NumPages == 3      \* page numbers the simulated catalog links to: 1..NumPages
MaxRuns == 2       \* scrape_all invocations on one controller
MaxRaw == 3        \* raw listings in the store before normalization
MaxBatchSize == 2  \* largest AISettings.batch_size
MaxAIRetries == 2  \* largest AISettings.max_retries
MaxItems == 2      \* elements of the JSON array in one classifier answer
MaxNormRuns == 2   \* normalize_all invocations on one store
MaxRetries == 3    \* largest max_retries given to the retry wrapper
MaxLaunches == 2   \* launch calls on one BrowserService
MaxCloses == 3     \* close calls on one BrowserService

\* Program constants
MAX_ELEMENT_RETRIES == 10
MAX_EMPTY_PAGES == 2
MAX_CLOUDFLARE_RETRIES == 3
max_shifts == 20
\* DUPLICATE_THRESHOLD = 0.8 as the fraction ThresholdNum / ThresholdDen
ThresholdNum == 4
ThresholdDen == 5

\* the empty string returned where no URL was found
NoUrl == [path |-> "", p |-> 0]

--------------------------------------------------------------------------
\* URLs: the catalog path and the query parameter p (0: no p parameter)
CatalogPath == "/catalog"
Url(n) == [path |-> CatalogPath, p |-> n]
Urls == {Url(n) : n \in 0..NumPages}

\* _normalize_url_for_comparison: path + p, p defaulting to 1
NormalizeUrlForComparison(url) ==
    <<url.path, IF url.p = 0 THEN 1 ELSE url.p>>

PageIdentities == {NormalizeUrlForComparison(u) : u \in Urls}

\* settings.category_url and settings.max_pages
category_url == Url(0)
MaxPagesSettings == {0, 2}


--------------------------------------------------------------------------
\* BrowserService._check_page_status: what the loaded page shows
PageObs == [blocked_phrase : BOOLEAN, cf_phrase : BOOLEAN, marker : BOOLEAN,
            avito_title : BOOLEAN, raises : BOOLEAN]

CheckPageStatus(has_page, obs) ==
    IF ~has_page THEN "blocked"
    ELSE IF obs.raises THEN "unknown"
    ELSE IF obs.blocked_phrase THEN "blocked"
    ELSE IF obs.cf_phrase THEN "cloudflare"
    ELSE IF obs.marker THEN "ok"
    ELSE IF obs.avito_title THEN "ok"
    ELSE "unknown"

\* BrowserService._check_blocked
CheckBlocked(has_page, obs) == CheckPageStatus(has_page, obs) = "blocked"

\* the statuses / block verdicts a launched browser can report
StatusOutcomes == {CheckPageStatus(TRUE, o) : o \in PageObs}
BlockedOutcomes == {CheckBlocked(TRUE, o) : o \in PageObs}

\* BrowserService.navigate: the classification loop over the statuses seen at
\* the MAX_CLOUDFLARE_RETRIES checks and at the final check
RECURSIVE NavigateLoopTrustsLastCheck(_, _)
NavigateLoopTrustsLastCheck(sts, i) ==
    IF i > MAX_CLOUDFLARE_RETRIES THEN sts[i] # "blocked"
    ELSE IF sts[i] = "ok" THEN TRUE
    ELSE IF sts[i] = "blocked" THEN FALSE
    ELSE NavigateLoopTrustsLastCheck(sts, i + 1)

RECURSIVE NavigateLoop(_, _)
NavigateLoop(sts, i) ==
    IF i > MAX_CLOUDFLARE_RETRIES THEN sts[i] = "ok"
    ELSE IF sts[i] = "ok" THEN TRUE
    ELSE IF sts[i] = "blocked" THEN FALSE
    ELSE NavigateLoop(sts, i + 1)

\* goto_ok = FALSE: page.goto raised (timeout, network error); the handler
\* of navigate turns it into a False result
\* loads: how many times the page was loaded (page.goto at line 237 is the
\* only load of navigate; the status checks look at the page as it is)
Navigate(has_page, goto_ok, sts) ==
    IF ~has_page THEN [success |-> FALSE, raised |-> FALSE, loads |-> 0]
    ELSE IF ~goto_ok THEN [success |-> FALSE, raised |-> FALSE, loads |-> 0]
    ELSE [success |-> NavigateLoop(sts, 1), raised |-> FALSE, loads |-> 1]

\* the statuses of one navigation; a page that has settled as "ok" or
\* "blocked" is not looked at again, so it is listed with that status kept
NavigateStatuses ==
    {s \in [1..(MAX_CLOUDFLARE_RETRIES + 1) -> StatusOutcomes] :
        \A i \in 1..MAX_CLOUDFLARE_RETRIES :
            s[i] \in {"ok", "blocked"} => s[i + 1] = s[i]}

NavigateOutcomes ==
    {Navigate(TRUE, g, s).success : g \in BOOLEAN, s \in NavigateStatuses}

--------------------------------------------------------------------------
\* ScraperService._wait_for_element_with_retry over the observations of its
\* attempts: "found" (selector appeared), "blocked" (absent, page blocked),
\* "absent" (absent, not blocked; the page is reloaded unless it was the
\* last attempt)
WaitObservations ==
    {[i \in 1..MAX_ELEMENT_RETRIES |-> IF i < k THEN "absent" ELSE last] :
        k \in 1..MAX_ELEMENT_RETRIES, last \in {"found", "blocked", "absent"}}

\* WaitLoop without the test of line 445: the page is reloaded after the
\* last attempt as well
RECURSIVE WaitLoopReloadsAtEnd(_, _, _)
WaitLoopReloadsAtEnd(obs, i, reloads) ==
    IF i > MAX_ELEMENT_RETRIES THEN [found |-> FALSE, waits |-> i - 1, reloads |-> reloads]
    ELSE IF obs[i] = "found" THEN [found |-> TRUE, waits |-> i, reloads |-> reloads]
    ELSE IF obs[i] = "blocked" THEN [found |-> FALSE, waits |-> i, reloads |-> reloads]
    ELSE WaitLoopReloadsAtEnd(obs, i + 1, reloads + 1)

RECURSIVE WaitLoop(_, _, _)
WaitLoop(obs, i, reloads) ==
    IF i > MAX_ELEMENT_RETRIES THEN [found |-> FALSE, waits |-> i - 1, reloads |-> reloads]
    ELSE IF obs[i] = "found" THEN [found |-> TRUE, waits |-> i, reloads |-> reloads]
    ELSE IF obs[i] = "blocked" THEN [found |-> FALSE, waits |-> i, reloads |-> reloads]
    ELSE IF i >= MAX_ELEMENT_RETRIES THEN [found |-> FALSE, waits |-> i, reloads |-> reloads]
    ELSE WaitLoop(obs, i + 1, reloads + 1)

WaitForElementWithRetry(obs) == WaitLoop(obs, 1, 0)

WaitOutcomes == {WaitForElementWithRetry(o).found : o \in WaitObservations}

--------------------------------------------------------------------------
\* Pagination widget of a loaded page: the buttons
\* [data-marker='pagination-button/page(N)'] in DOM order
Button(n, t, h) == [num |-> n, tag |-> t, href |-> h]

\* a widget showing the page numbers in w, cur rendered as the current page
\* (a span without link); links lead to ?p=N, or all back to the first
\* page. The widget may show one number more than the catalog has pages:
\* that button leads back to the first page as well
Widget(w, cur, loopback) ==
    LET slot(n) == IF n = cur THEN Button(n, "span", NoUrl)
                   ELSE Button(n, "a", IF loopback \/ n > NumPages THEN Url(0)
                                       ELSE Url(n))
    IN  SelectSeq([n \in 1..(NumPages + 1) |-> slot(n)], LAMBDA b : b.num \in w)

PaginationDoms ==
    {Widget(w, cur, lb) : w \in SUBSET (1..(NumPages + 1)),
                          cur \in 0..(NumPages + 1), lb \in BOOLEAN}

\* ScraperService._detect_total_pages
RECURSIVE MaxButtonNum(_, _)
MaxButtonNum(buttons, max_page) ==
    IF buttons = <<>> THEN max_page
    ELSE MaxButtonNum(Tail(buttons),
                      IF Head(buttons).num > max_page THEN Head(buttons).num
                      ELSE max_page)

DetectTotalPages(dom) == IF dom = <<>> THEN 0 ELSE MaxButtonNum(dom, 0)

\* ScraperService._find_target_page_button
FindTargetPageButton(dom, target_page_num) ==
    LET matching == SelectSeq(dom, LAMBDA b : b.num = target_page_num)
    IN  IF matching = <<>> THEN NoUrl
        ELSE IF Head(matching).tag # "a" THEN NoUrl
        ELSE Head(matching).href

\* ScraperService._navigate_pagination_window: the scan for the intermediate
\* button (largest number below the target that is a link)
RECURSIVE BestIntermediate(_, _, _, _)
BestIntermediate(buttons, target_page_num, best_num, best_url) ==
    IF buttons = <<>> THEN best_url
    ELSE LET b == Head(buttons)
             take == /\ b.num > best_num
                     /\ b.num < target_page_num
                     /\ b.tag = "a"
                     /\ b.href # NoUrl
         IN  BestIntermediate(Tail(buttons), target_page_num,
                              IF take THEN b.num ELSE best_num,
                              IF take THEN b.href ELSE best_url)

BestIntermediateUrl(dom, target_page_num) ==
    BestIntermediate(dom, target_page_num, 0, NoUrl)

\* what one look at the pagination widget yields for a target page: the
\* link of the target button and the link of the intermediate button
PaginationViewTable ==
    [t \in 1..(NumPages + 2) |->
        {[target |-> FindTargetPageButton(d, t),
          best |-> BestIntermediateUrl(d, t)] : d \in PaginationDoms}]

PaginationViews(target_page_num) == PaginationViewTable[target_page_num]

TotalPagesOutcomes == {DetectTotalPages(d) : d \in PaginationDoms}

--------------------------------------------------------------------------
\* Item cards of a catalog page. item_id 0: no data-item-id attribute;
\* title "": no title link or empty text; price: the meta content, numeric
\* or not
Card(i, t, v) == [item_id |-> i, title |-> t, href |-> "/item",
                  price |-> [numeric |-> TRUE, value |-> v]]
NoPriceCard(i) == [item_id |-> i, title |-> "T", href |-> "",
                   price |-> [numeric |-> FALSE, value |-> 0]]

NoProduct == [avito_id |-> 0, title |-> "", price |-> 0, url |-> "",
              scraped_at |-> 0]

\* ScraperService._parse_single_card; now: the clock at extraction
ParseSingleCard(card, now) ==
    IF card.item_id = 0 THEN NoProduct
    ELSE IF card.title = "" THEN NoProduct
    ELSE [avito_id |-> card.item_id, title |-> card.title,
          price |-> IF card.price.numeric THEN card.price.value ELSE 0,
          url |-> card.href, scraped_at |-> now]

\* ScraperService._parse_current_page: the catalog container was found or
\* not, then the cards in DOM order
RECURSIVE ParseCards(_, _)
ParseCards(cards, now) ==
    IF cards = <<>> THEN <<>>
    ELSE LET product == ParseSingleCard(Head(cards), now)
         IN  IF product # NoProduct
             THEN <<product>> \o ParseCards(Tail(cards), now)
             ELSE ParseCards(Tail(cards), now)

ParseCurrentPage(catalog_found, cards, now) ==
    IF ~catalog_found THEN <<>> ELSE ParseCards(cards, now)

\* the card lists the simulated catalog serves
PageCards ==
    { <<>>,
      <<Card(1, "T", 20), Card(2, "T", 20), Card(3, "T", 20), Card(4, "T", 20)>>,
      <<Card(1, "T", 10), Card(2, "T", 10), Card(3, "T", 10), Card(4, "T", 10),
        Card(5, "T", 10)>>,
      <<Card(1, "T", 20), Card(1, "T", 10), Card(1, "T", 10), Card(1, "T", 10),
        Card(1, "T", 10)>>,
      <<Card(0, "T", 10), Card(6, "", 10), NoPriceCard(6)>> }

Ids(products) == {products[i].avito_id : i \in DOMAIN products}

--------------------------------------------------------------------------
\* SQLiteProductRepository._serialize_datetime / _deserialize_datetime:
\* an aware UTC datetime goes to its ISO 8601 text and back
SerializeDatetime(dt) == [iso |-> dt]
DeserializeDatetime(value) == value.iso

\* SaveRawProduct as a plain INSERT that keeps the row already stored
SaveRawProductKeepsOld(store, product) ==
    store \cup {[product EXCEPT !.scraped_at = SerializeDatetime(@)]}

\* SQLiteProductRepository.save_raw_product: INSERT ... ON CONFLICT(avito_id)
\* DO UPDATE
SaveRawProduct(store, product) ==
    {r \in store : r.avito_id # product.avito_id}
        \cup {[product EXCEPT !.scraped_at = SerializeDatetime(@)]}

\* SaveRawProducts committing after the first row of the batch
SaveRawProductsFirstRowOnly(store, products) ==
    IF products = <<>> THEN store ELSE SaveRawProduct(store, Head(products))

\* SQLiteProductRepository.save_raw_products: executemany + commit
RECURSIVE SaveRawProducts(_, _)
SaveRawProducts(store, products) ==
    IF products = <<>> THEN store
    ELSE SaveRawProducts(SaveRawProduct(store, Head(products)), Tail(products))

--------------------------------------------------------------------------
\* SplitNew without line 233 (the id is not added to the seen-set)
RECURSIVE SplitNewForgetsSeen(_, _, _, _)
SplitNewForgetsSeen(products, seen, new_products, duplicate_count) ==
    IF products = <<>>
    THEN [seen |-> seen \cup Ids(new_products), new_products |-> new_products,
          duplicate_count |-> duplicate_count]
    ELSE LET product == Head(products)
         IN  IF product.avito_id \in seen
             THEN SplitNewForgetsSeen(Tail(products), seen, new_products,
                                      duplicate_count + 1)
             ELSE SplitNewForgetsSeen(Tail(products), seen,
                                      Append(new_products, product),
                                      duplicate_count)

\* scrape_all, lines 226-234: split the page's products into new ones and
\* duplicates against the seen-set
RECURSIVE SplitNew(_, _, _, _)
SplitNew(products, seen, new_products, duplicate_count) ==
    IF products = <<>>
    THEN [seen |-> seen, new_products |-> new_products,
          duplicate_count |-> duplicate_count]
    ELSE LET product == Head(products)
         IN  IF product.avito_id \in seen
             THEN SplitNew(Tail(products), seen, new_products,
                           duplicate_count + 1)
             ELSE SplitNew(Tail(products), seen \cup {product.avito_id},
                           Append(new_products, product), duplicate_count)

\* duplicate_ratio >= DUPLICATE_THRESHOLD
CycleDetected(duplicate_count, total) ==
    duplicate_count * ThresholdDen >= ThresholdNum * total

\* ScrapePage leaving the loop on a detected cycle without lines 248-250
ScrapePageDropsOnCycle(products, seen, all, store, empty_pages) ==
    IF products # <<>>
    THEN LET split == SplitNew(products, seen, <<>>, 0)
             cycle == CycleDetected(split.duplicate_count, Len(products))
         IN  [seen |-> split.seen,
              new_products |-> split.new_products,
              all |-> IF cycle THEN all ELSE all \o split.new_products,
              store |-> IF cycle THEN store
                        ELSE SaveRawProducts(store, split.new_products),
              saved |-> IF cycle THEN <<>> ELSE split.new_products,
              empty_pages |-> IF cycle THEN empty_pages ELSE 0,
              stop |-> IF cycle THEN "pagination_cycle" ELSE ""]
    ELSE [seen |-> seen, new_products |-> <<>>, all |-> all, store |-> store,
          saved |-> <<>>,
          empty_pages |-> empty_pages + 1,
          stop |-> IF empty_pages + 1 >= MAX_EMPTY_PAGES
                   THEN "too_many_empty_pages" ELSE ""]

\* ScrapePage without the reset of line 257: a non-empty page keeps the
\* count of empty pages
ScrapePageKeepsEmptyCount(products, seen, all, store, empty_pages) ==
    IF products # <<>>
    THEN LET split == SplitNew(products, seen, <<>>, 0)
             cycle == CycleDetected(split.duplicate_count, Len(products))
         IN  [seen |-> split.seen,
              new_products |-> split.new_products,
              all |-> all \o split.new_products,
              store |-> SaveRawProducts(store, split.new_products),
              saved |-> split.new_products,
              empty_pages |-> empty_pages,
              stop |-> IF cycle THEN "pagination_cycle" ELSE ""]
    ELSE [seen |-> seen, new_products |-> <<>>, all |-> all, store |-> store,
          saved |-> <<>>,
          empty_pages |-> empty_pages + 1,
          stop |-> IF empty_pages + 1 >= MAX_EMPTY_PAGES
                   THEN "too_many_empty_pages" ELSE ""]

\* ScrapePage writing every product of the page, new or seen before
ScrapePageSavesAll(products, seen, all, store, empty_pages) ==
    IF products # <<>>
    THEN LET split == SplitNew(products, seen, <<>>, 0)
             cycle == CycleDetected(split.duplicate_count, Len(products))
         IN  [seen |-> split.seen,
              new_products |-> split.new_products,
              all |-> all \o split.new_products,
              store |-> SaveRawProducts(store, products),
              saved |-> split.new_products,
              empty_pages |-> IF cycle THEN empty_pages ELSE 0,
              stop |-> IF cycle THEN "pagination_cycle" ELSE ""]
    ELSE [seen |-> seen, new_products |-> <<>>, all |-> all, store |-> store,
          saved |-> <<>>,
          empty_pages |-> empty_pages + 1,
          stop |-> IF empty_pages + 1 >= MAX_EMPTY_PAGES
                   THEN "too_many_empty_pages" ELSE ""]

\* scrape_all, lines 222-281: what parsing one page does to the crawl state.
\* stop: "" (go on), "pagination_cycle" or "too_many_empty_pages"
ScrapePage(products, seen, all, store, empty_pages) ==
    IF products # <<>>
    THEN LET split == SplitNew(products, seen, <<>>, 0)
             cycle == CycleDetected(split.duplicate_count, Len(products))
         IN  [seen |-> split.seen,
              new_products |-> split.new_products,
              all |-> all \o split.new_products,
              store |-> SaveRawProducts(store, split.new_products),
              saved |-> split.new_products,
              empty_pages |-> IF cycle THEN empty_pages ELSE 0,
              stop |-> IF cycle THEN "pagination_cycle" ELSE ""]
    ELSE [seen |-> seen, new_products |-> <<>>, all |-> all, store |-> store,
          saved |-> <<>>,
          empty_pages |-> empty_pages + 1,
          stop |-> IF empty_pages + 1 >= MAX_EMPTY_PAGES
                   THEN "too_many_empty_pages" ELSE ""]

\* StopAfterPage with the limit test of line 283 as max_pages < current
StopAfterPageLate(limit, page_num, total) ==
    IF 0 < limit /\ limit < page_num THEN "max_pages_reached"
    ELSE IF total > 0 /\ page_num >= total THEN "last_page_reached"
    ELSE ""

\* UpdateTotalPages taking the count of a failed probe
UpdateTotalPagesResets(total, updated_total) == updated_total

\* scrape_all, lines 309-312: a probe that found a count replaces the
\* stored one
UpdateTotalPages(total, updated_total) ==
    IF updated_total > 0 THEN updated_total ELSE total

\* scrape_all, lines 283-297: page limit, then detected last page
StopAfterPage(limit, page_num, total) ==
    IF 0 < limit /\ limit <= page_num THEN "max_pages_reached"
    ELSE IF total > 0 /\ page_num >= total THEN "last_page_reached"
    ELSE ""

\* no page transition yet in this run
NoProbe == [probed |-> FALSE, total |-> 0]

\* no page parsed yet in this run
NoPage == [total |-> 0, duplicates |-> 0, products |-> <<>>]

\* the visited check comparing raw URLs instead of page identities
CycleByRawUrl(url, visited) == <<url.path, url.p>> \in visited

\* _find_next_page_url_with_retry, lines 884-885 and 914-915
CycleByUrl(url, visited) == NormalizeUrlForComparison(url) \in visited

--------------------------------------------------------------------------
\* The resources run_pipeline owns

NoHandles == [playwright |-> FALSE, browser |-> FALSE, context |-> FALSE,
              page |-> FALSE]

NoLaunch == [fail_at |-> "", leaked |-> {}]

PipeIdle ==
    /\ pl_pc = "idle"
    /\ pl_exc = ""
    /\ db = "none"
    /\ br = NoHandles
    /\ br_live = {}
    /\ ai = "none"
    /\ pl_launch = NoLaunch

\* BrowserClose without the try / except of lines 461 and 476
BrowserCloseUnguarded(h, live, fail_at) ==
    LET ctx_fails == h.context /\ fail_at = "context"
        brw_fails == ~ctx_fails /\ h.browser /\ fail_at = "browser"
        pw_fails == ~ctx_fails /\ ~brw_fails /\ h.playwright
                    /\ fail_at = "playwright"
        failed == ctx_fails \/ brw_fails \/ pw_fails
    IN  [handles |->
            [context |-> IF ctx_fails THEN h.context ELSE FALSE,
             browser |-> IF ctx_fails \/ brw_fails THEN h.browser ELSE FALSE,
             playwright |-> IF failed THEN h.playwright ELSE FALSE,
             page |-> IF failed THEN h.page ELSE FALSE],
         live |->
            live \ ( (IF h.context /\ ~ctx_fails THEN {"context"} ELSE {})
                     \cup (IF h.browser /\ ~ctx_fails /\ ~brw_fails
                           THEN {"browser"} ELSE {})
                     \cup (IF h.playwright /\ ~failed
                           THEN {"playwright"} ELSE {}) ),
         raised |-> failed]

\* BrowserService.close, lines 461-481: context, browser, playwright are
\* closed in this order inside one try; fail_at names the close call that
\* raises ("none": all succeed). A resource whose close call was not
\* reached or raised stays live and keeps its handle. The except clause
\* (lines 476-481) absorbs the failure: close itself raises nothing.
BrowserClose(h, live, fail_at) ==
    LET ctx_fails == h.context /\ fail_at = "context"
        brw_fails == ~ctx_fails /\ h.browser /\ fail_at = "browser"
        pw_fails == ~ctx_fails /\ ~brw_fails /\ h.playwright
                    /\ fail_at = "playwright"
        failed == ctx_fails \/ brw_fails \/ pw_fails
    IN  [handles |->
            [context |-> IF ctx_fails THEN h.context ELSE FALSE,
             browser |-> IF ctx_fails \/ brw_fails THEN h.browser ELSE FALSE,
             playwright |-> IF failed THEN h.playwright ELSE FALSE,
             page |-> IF failed THEN h.page ELSE FALSE],
         live |->
            live \ ( (IF h.context /\ ~ctx_fails THEN {"context"} ELSE {})
                     \cup (IF h.browser /\ ~ctx_fails /\ ~brw_fails
                           THEN {"browser"} ELSE {})
                     \cup (IF h.playwright /\ ~failed
                           THEN {"playwright"} ELSE {}) ),
         raised |-> FALSE]

CloseFailures == {"none", "context", "browser", "playwright"}

\* BrowserService.launch, lines 135-209: the handles and resources held
\* when the step fail_at raises ("none": the launch succeeds)
LaunchAcquired(fail_at) ==
    CASE fail_at = "playwright" -> [handles |-> NoHandles, live |-> {}]
      [] fail_at = "browser" ->
            [handles |-> [NoHandles EXCEPT !.playwright = TRUE],
             live |-> {"playwright"}]
      [] fail_at = "context" ->
            [handles |-> [NoHandles EXCEPT !.playwright = TRUE, !.browser = TRUE],
             live |-> {"playwright", "browser"}]
      [] fail_at = "page" ->
            [handles |-> [NoHandles EXCEPT !.playwright = TRUE, !.browser = TRUE,
                                           !.context = TRUE],
             live |-> {"playwright", "browser", "context"}]
      [] OTHER ->
            [handles |-> [playwright |-> TRUE, browser |-> TRUE,
                          context |-> TRUE, page |-> TRUE],
             live |-> {"playwright", "browser", "context"}]

LaunchFailures == {"none", "playwright", "browser", "context", "page"}

\* AIService.close, lines 387-392
AIClose(session, close_ok) ==
    IF session = "open"
    THEN IF close_ok THEN [session |-> "none", raised |-> FALSE]
         ELSE [session |-> "open", raised |-> TRUE]
    ELSE [session |-> session, raised |-> FALSE]

\* SQLiteProductRepository.close, lines 627-639
RepositoryClose(conn, close_ok) ==
    IF conn = "open" THEN (IF close_ok THEN "none" ELSE "open") ELSE conn

--------------------------------------------------------------------------
\* utils/retry.py. The outcome of one invocation of the wrapped function:
\* kind "ok" (it returned val), "matching" (it raised exc, an instance of
\* the configured classes) or "other" (it raised exc, not an instance)
Outcome(kind, exc, val) == [kind |-> kind, exc |-> exc, val |-> val]

\* RetryStep that gives up one attempt early
RetryStepGivesUpEarly(n, max_retries, outcome, current_delay, backoff_factor) ==
    IF outcome.kind = "ok"
    THEN [act |-> "return", exc |-> outcome.exc, val |-> outcome.val,
          sleep |-> 0, delay |-> current_delay]
    ELSE IF outcome.kind = "other"
    THEN [act |-> "raise", exc |-> outcome.exc, val |-> outcome.val,
          sleep |-> 0, delay |-> current_delay]
    ELSE IF n >= max_retries - 1
    THEN [act |-> "raise", exc |-> outcome.exc, val |-> outcome.val,
          sleep |-> 0, delay |-> current_delay]
    ELSE [act |-> "sleep", exc |-> outcome.exc, val |-> outcome.val,
          sleep |-> current_delay, delay |-> current_delay * backoff_factor]

\* RetryStep retrying every exception, configured or not
RetryStepRetriesAll(n, max_retries, outcome, current_delay, backoff_factor) ==
    IF outcome.kind = "ok"
    THEN [act |-> "return", exc |-> outcome.exc, val |-> outcome.val,
          sleep |-> 0, delay |-> current_delay]
    ELSE IF n = max_retries
    THEN [act |-> "raise", exc |-> outcome.exc, val |-> outcome.val,
          sleep |-> 0, delay |-> current_delay]
    ELSE [act |-> "sleep", exc |-> outcome.exc, val |-> outcome.val,
          sleep |-> current_delay, delay |-> current_delay * backoff_factor]

\* RetryStep without line 87: every wait lasts the configured delay
RetryStepNoBackoff(n, max_retries, outcome, current_delay, backoff_factor) ==
    IF outcome.kind = "ok"
    THEN [act |-> "return", exc |-> outcome.exc, val |-> outcome.val,
          sleep |-> 0, delay |-> current_delay]
    ELSE IF outcome.kind = "other"
    THEN [act |-> "raise", exc |-> outcome.exc, val |-> outcome.val,
          sleep |-> 0, delay |-> current_delay]
    ELSE IF n = max_retries
    THEN [act |-> "raise", exc |-> outcome.exc, val |-> outcome.val,
          sleep |-> 0, delay |-> current_delay]
    ELSE [act |-> "sleep", exc |-> outcome.exc, val |-> outcome.val,
          sleep |-> current_delay, delay |-> current_delay]

\* async_retry.wrapper, the body of the for loop (lines 59-87): what the
\* wrapper does with the outcome of invocation number n (attempt)
RetryStep(n, max_retries, outcome, current_delay, backoff_factor) ==
    IF outcome.kind = "ok"
    THEN [act |-> "return", exc |-> outcome.exc, val |-> outcome.val,
          sleep |-> 0, delay |-> current_delay]
    ELSE IF outcome.kind = "other"
    THEN [act |-> "raise", exc |-> outcome.exc, val |-> outcome.val,
          sleep |-> 0, delay |-> current_delay]
    ELSE IF n = max_retries
    THEN [act |-> "raise", exc |-> outcome.exc, val |-> outcome.val,
          sleep |-> 0, delay |-> current_delay]
    ELSE [act |-> "sleep", exc |-> outcome.exc, val |-> outcome.val,
          sleep |-> current_delay, delay |-> current_delay * backoff_factor]

NoResult == [exc |-> "", val |-> 0]

RetryIdle ==
    /\ rt_pc = "idle"
    /\ rt_max_retries = 0
    /\ rt_backoff = 1
    /\ rt_delay = 1
    /\ rt_delay0 = 1
    /\ rt_attempt = 0
    /\ rt_history = <<>>
    /\ rt_sleeps = <<>>
    /\ rt_result = NoResult

--------------------------------------------------------------------------
\* The classifier's answer as a sequence of tokens: "fence_json" (three
\* backticks followed by json), "fence" (three backticks), the brackets, other text, and the elements of a
\* JSON array (an object with an avito_id, with or without the other
\* required fields, or a scalar)
Tok(kind) == [tok |-> kind, id |-> 0, fields |-> FALSE]
Item(i) == [tok |-> "item", id |-> i, fields |-> TRUE]
IncompleteItem(i) == [tok |-> "item", id |-> i, fields |-> FALSE]

FirstIndex(text, kinds, start) ==
    LET hits == {i \in start..Len(text) : text[i].tok \in kinds}
    IN  IF hits = {} THEN 0 ELSE CHOOSE i \in hits : \A j \in hits : i <= j

LastIndex(text, kinds) ==
    LET hits == {i \in 1..Len(text) : text[i].tok \in kinds}
    IN  IF hits = {} THEN 0 ELSE CHOOSE i \in hits : \A j \in hits : i >= j

\* json.loads accepts the fragment and yields a list
ValidJsonArray(json_str) ==
    /\ Len(json_str) >= 2
    /\ json_str[1].tok = "["
    /\ json_str[Len(json_str)].tok = "]"
    /\ \A i \in 2..(Len(json_str) - 1) : json_str[i].tok \in {"item", "scalar"}

AIError == [exc |-> "AIServiceError", val |-> <<>>]

\* AIService._extract_json_from_response. str.index raises ValueError when
\* the closing fence is missing; a fence_json token also contains a fence
ExtractJsonFromResponse(text) ==
    LET json_fence == FirstIndex(text, {"fence_json"}, 1)
        open == IF json_fence # 0 THEN json_fence
                ELSE FirstIndex(text, {"fence"}, 1)
        close == IF open = 0 THEN 0
                 ELSE FirstIndex(text, {"fence_json", "fence"}, open + 1)
        cleaned == IF open = 0 THEN text ELSE SubSeq(text, open + 1, close - 1)
        bracket_start == FirstIndex(cleaned, {"["}, 1)
        bracket_end == LastIndex(cleaned, {"]"})
        json_str == SubSeq(cleaned, bracket_start, bracket_end)
    IN  IF open # 0 /\ close = 0 THEN [exc |-> "ValueError", val |-> <<>>]
        ELSE IF bracket_start = 0 \/ bracket_end = 0 THEN AIError
        ELSE IF ~ValidJsonArray(json_str) THEN AIError
        ELSE [exc |-> "", val |-> SubSeq(json_str, 2, Len(json_str) - 1)]

IsResult(item) == item.tok = "item" /\ item.fields

AIProductResult(item) ==
    [avito_id |-> item.id, normalized_title |-> "N", product_category |-> "C",
     key_specs |-> "K"]

\* AIService._parse_ai_results: elements that are not objects or lack a
\* required field are skipped
RECURSIVE ParseAIResults(_)
ParseAIResults(raw_results) ==
    IF raw_results = <<>> THEN <<>>
    ELSE IF IsResult(Head(raw_results))
    THEN <<AIProductResult(Head(raw_results))>> \o ParseAIResults(Tail(raw_results))
    ELSE ParseAIResults(Tail(raw_results))

\* AIService._send_request._do_request: one POST and what it yields.
\* kind "client_error": the transport raised aiohttp.ClientError
Http(kind, status, choices, content) ==
    [kind |-> kind, status |-> status, choices |-> choices, content |-> content]

DoRequest(resp) ==
    IF resp.kind = "client_error" THEN Outcome("matching", "ClientError", <<>>)
    ELSE IF resp.status # 200 THEN Outcome("matching", "AIServiceError", <<>>)
    ELSE IF ~resp.choices THEN Outcome("matching", "AIServiceError", <<>>)
    ELSE IF resp.content = <<>> THEN Outcome("matching", "AIServiceError", <<>>)
    ELSE Outcome("ok", "", resp.content)

\* AIService.normalize_batch after _send_request returned response_text
NormalizeBatch(response_text) ==
    LET raw_results == ExtractJsonFromResponse(response_text)
    IN  IF raw_results.exc # "" THEN raw_results
        ELSE [exc |-> "", val |-> ParseAIResults(raw_results.val)]

--------------------------------------------------------------------------
\* NormalizerService and the normalized_products table

\* models/product.py raw_to_normalized; now: the clock at normalization
RawToNormalized(raw, result, now) ==
    [avito_id |-> raw.avito_id, original_title |-> raw.title,
     normalized_title |-> result.normalized_title,
     product_category |-> result.product_category,
     key_specs |-> result.key_specs, price |-> raw.price, url |-> raw.url,
     scraped_at |-> raw.scraped_at, normalized_at |-> now]

\* SQLiteProductRepository._row_to_raw_product
RowToRawProduct(row) ==
    [row EXCEPT !.scraped_at = DeserializeDatetime(@)]

\* rows by scraped_at, latest first
RECURSIVE OrderByScrapedAtDesc(_)
OrderByScrapedAtDesc(rows) ==
    IF rows = {} THEN <<>>
    ELSE LET latest == CHOOSE r \in rows :
                         \A q \in rows : q.scraped_at.iso <= r.scraped_at.iso
         IN  <<latest>> \o OrderByScrapedAtDesc(rows \ {latest})

\* GetRawProductsWithoutNormalization with JOIN in place of LEFT JOIN ...
\* WHERE n.avito_id IS NULL
GetRawProductsInnerJoin(raw, normalized) ==
    LET rows == {r \in raw : \E n \in normalized : n.avito_id = r.avito_id}
        ordered == OrderByScrapedAtDesc(rows)
    IN  [i \in DOMAIN ordered |-> RowToRawProduct(ordered[i])]

\* GetRawProductsWithoutNormalization without the join: every raw listing
GetRawProductsAll(raw, normalized) ==
    LET ordered == OrderByScrapedAtDesc(raw)
    IN  [i \in DOMAIN ordered |-> RowToRawProduct(ordered[i])]

\* SQLiteProductRepository.get_raw_products_without_normalization
GetRawProductsWithoutNormalization(raw, normalized) ==
    LET rows == {r \in raw : \A n \in normalized : n.avito_id # r.avito_id}
        ordered == OrderByScrapedAtDesc(rows)
    IN  [i \in DOMAIN ordered |-> RowToRawProduct(ordered[i])]

\* NormalizerService._split_into_batches
RECURSIVE SplitIntoBatches(_, _)
SplitIntoBatches(products, size) ==
    IF products = <<>> THEN <<>>
    ELSE IF Len(products) <= size THEN <<products>>
    ELSE <<SubSeq(products, 1, size)>>
             \o SplitIntoBatches(SubSeq(products, size + 1, Len(products)), size)

\* MapResultsToProducts without the raw_index lookup of lines 217-224: a
\* result whose id is not in the batch still becomes a product
RECURSIVE MapResultsKeepsUnmatched(_, _, _)
MapResultsKeepsUnmatched(raw_products, ai_results, now) ==
    IF ai_results = <<>> THEN <<>>
    ELSE LET result == Head(ai_results)
             raw == [raw_products[1] EXCEPT !.avito_id = result.avito_id]
         IN  <<RawToNormalized(raw, result, now)>>
                 \o MapResultsKeepsUnmatched(raw_products, Tail(ai_results), now)

\* NormalizerService._map_results_to_products: one NormalizedProduct per
\* result whose id is in the batch, in the order of the results
RECURSIVE MapResultsToProducts(_, _, _)
MapResultsToProducts(raw_products, ai_results, now) ==
    IF ai_results = <<>> THEN <<>>
    ELSE LET result == Head(ai_results)
             matches == {i \in DOMAIN raw_products :
                           raw_products[i].avito_id = result.avito_id}
             rest == MapResultsToProducts(raw_products, Tail(ai_results), now)
         IN  IF matches = {} THEN rest
             ELSE LET last == CHOOSE i \in matches : \A j \in matches : i >= j
                  IN  <<RawToNormalized(raw_products[last], result, now)>> \o rest

\* SQLiteProductRepository.save_normalized_products: INSERT ... ON
\* CONFLICT(avito_id) DO UPDATE for every product, then commit
RECURSIVE SaveNormalizedProducts(_, _)
SaveNormalizedProducts(store, products) ==
    IF products = <<>> THEN store
    ELSE LET p == Head(products)
             row == [p EXCEPT !.scraped_at = SerializeDatetime(@),
                              !.normalized_at = SerializeDatetime(@)]
         IN  SaveNormalizedProducts(
                 {r \in store : r.avito_id # p.avito_id} \cup {row},
                 Tail(products))

\* NormalizerService._process_batch once the classifier call has ended
\* with call = [exc, val]: AIServiceError is caught, any other exception
\* propagates
ProcessBatchResult(batch, call, store, now) ==
    IF call.exc = "AIServiceError"
    THEN [exc |-> "", normalized |-> <<>>, store |-> store]
    ELSE IF call.exc # ""
    THEN [exc |-> call.exc, normalized |-> <<>>, store |-> store]
    ELSE LET normalized == MapResultsToProducts(batch, call.val, now)
         IN  [exc |-> "", normalized |-> normalized,
              store |-> IF normalized # <<>>
                        THEN SaveNormalizedProducts(store, normalized)
                        ELSE store]

NormIdle ==
    /\ norm_pc = "idle"
    /\ norm_exc = ""
    /\ norm_store = {}
    /\ batch_size = 1
    /\ ai_max_retries = 1
    /\ batches = <<>>
    /\ batch_index = 0
    /\ ai_attempt = 0
    /\ all_normalized = <<>>
    /\ norm_runs = 0
    /\ last_batch = <<>>
    /\ last_text = <<>>
    /\ last_failure = ""
    /\ last_produced = <<>>
    /\ store_before = {}
    /\ norm_trace = <<>>

--------------------------------------------------------------------------
\* Inputs of the normalization pass

RawRow(i) == [avito_id |-> i, title |-> "T", price |-> 10 * i, url |-> "/item",
              scraped_at |-> SerializeDatetime(i)]

RawStores == {{RawRow(i) : i \in 1..n} : n \in 0..MaxRaw}

\* array elements: results for the ids 1 and 2, a result for an id no
\* batch holds, an object without the required fields, a scalar
ItemTokens == {Item(1), Item(2), Item(MaxRaw + 1), IncompleteItem(1),
               Tok("scalar")}

ItemSeqs == UNION {[1..n -> ItemTokens] : n \in 0..MaxItems}

\* bodies that are also served inside fences and surrounded by text
WrappedBodies ==
    { <<Tok("["), Item(1), Tok("]")>>,
      <<Tok("["), Item(1), Item(2), Tok("]")>>,
      <<Tok("text")>>,
      <<Tok("["), Tok("text"), Tok("]")>>,
      <<Tok("]"), Tok("[")>>,
      <<Tok("["), Item(1)>> }

\* what precedes and follows a body: nothing, a closed fence of either
\* kind, a fence that is never closed, a lone trailing fence, plain text
Wrappers ==
    { <<<<>>, <<>>>>,
      <<<<Tok("fence_json")>>, <<Tok("fence")>>>>,
      <<<<Tok("fence")>>, <<Tok("fence")>>>>,
      <<<<Tok("fence_json")>>, <<>>>>,
      <<<<Tok("fence")>>, <<>>>>,
      <<<<>>, <<Tok("fence")>>>>,
      <<<<Tok("text")>>, <<Tok("text")>>>> }

ResponseTexts ==
    {<<Tok("[")>> \o items \o <<Tok("]")>> : items \in ItemSeqs}
        \cup {w[1] \o body \o w[2] : body \in WrappedBodies, w \in Wrappers}

HttpResponses ==
    {Http("client_error", 0, FALSE, <<>>)}
        \cup {Http("response", status, FALSE, <<>>) : status \in {200, 201, 500}}
        \cup {Http("response", 200, TRUE, <<>>)}
        \cup {Http("response", 200, TRUE, text) : text \in ResponseTexts}

RetryOutcomes ==
    {Outcome("ok", "", v) : v \in 1..2}
        \cup {Outcome("matching", e, 0) : e \in {"E1", "E2"}}
        \cup {Outcome("other", "X", 0)}

--------------------------------------------------------------------------
\* ScraperService.scrape_all as a state machine

CrawlIdle ==
    /\ pc = "idle"
    /\ visited_urls = {}
    /\ seen_avito_ids = {}
    /\ total_pages = 0
    /\ current_page_num = 0
    /\ consecutive_empty_pages = 0
    /\ all_products = <<>>
    /\ attempt = 0
    /\ shift = 0
    /\ next_url = NoUrl
    /\ page_url = NoUrl
    /\ runs = 0
    /\ max_pages \in MaxPagesSettings
    /\ stop_reason = ""
    /\ extracted_ids = {}
    /\ persisted_ids = {}
    /\ last_new_ids = {}
    /\ last_page = NoPage
    /\ last_probe = NoProbe
    /\ revisit_nav = FALSE
    /\ pages_parsed = 0

StoreIdle ==
    /\ st_last = <<>>
    /\ st_before = {}
    /\ st_failed = FALSE
    /\ st_committed = {}

NoNavigate == [called |-> FALSE, has_page |-> FALSE, goto_ok |-> FALSE,
               sts |-> <<>>, success |-> FALSE, raised |-> FALSE,
               loads |-> 0]

NoWait == [called |-> FALSE, obs |-> <<>>, found |-> FALSE, waits |-> 0,
           reloads |-> 0]

NoCheck == [called |-> FALSE, has_page |-> FALSE, status |-> "",
            obs |-> [blocked_phrase |-> FALSE, cf_phrase |-> FALSE,
                     marker |-> FALSE, avito_title |-> FALSE,
                     raises |-> FALSE]]

NoClose == [before |-> NoHandles, after |-> NoHandles, released |-> {},
            raised |-> FALSE]

BrowserIdle ==
    /\ br_launches = 0
    /\ br_closes = 0
    /\ br_last = NoClose
    /\ br_nav = NoNavigate
    /\ br_wait = NoWait
    /\ br_check = NoCheck

CrawlInit ==
    /\ CrawlIdle
    /\ raw_store = {}
    /\ PipeIdle
    /\ NormIdle
    /\ RetryIdle
    /\ StoreIdle
    /\ BrowserIdle

\* Finish when _go_to_next_page has no except clause (lines 1060-1066): the
\* error of the page transition leaves scrape_all as an exception
FinishPropagatesTransitionError(reason, ended) ==
    /\ pc' = IF reason = "next_page_navigation_failed" THEN "failed" ELSE ended
    /\ stop_reason' = reason
    /\ attempt' = 0
    /\ shift' = 0
    /\ next_url' = NoUrl

\* scrape_all returns (or raises): the loop counters are dead
Finish(reason, ended) ==
    /\ pc' = ended
    /\ stop_reason' = reason
    /\ attempt' = 0
    /\ shift' = 0
    /\ next_url' = NoUrl

\* StartRun without line 182: the seen-set of the previous run is kept
StartRunKeepsSeen ==
    /\ UNCHANGED notCrawl
    /\ pc \in {"idle", "done", "failed"}
    /\ stop_reason # "save_raw_products_failed"
    /\ runs < MaxRuns
    /\ runs' = runs + 1
    /\ all_products' = <<>>
    /\ UNCHANGED seen_avito_ids
    /\ extracted_ids' = {}
    /\ persisted_ids' = {}
    /\ last_new_ids' = {}
    /\ last_page' = NoPage
    /\ last_probe' = NoProbe
    /\ revisit_nav' = FALSE
    /\ pages_parsed' = 0
    /\ consecutive_empty_pages' = 0
    /\ current_page_num' = 1
    /\ UNCHANGED <<raw_store, max_pages>>
    /\ \E launch_ok \in BOOLEAN :
         IF ~launch_ok
         THEN /\ Finish("browser_launch_failed", "failed")
              /\ visited_urls' = {}
              /\ total_pages' = 0
              /\ page_url' = NoUrl
         ELSE \E success \in NavigateOutcomes :
                IF ~success
                THEN /\ Finish("initial_navigation_failed", "done")
                     /\ visited_urls' = {}
                     /\ total_pages' = 0
                     /\ page_url' \in {NoUrl, category_url}
                ELSE /\ visited_urls' = {NormalizeUrlForComparison(category_url)}
                     /\ page_url' = category_url
                     /\ \E total \in TotalPagesOutcomes : total_pages' = total
                     /\ pc' = "parse"
                     /\ stop_reason' = ""
                     /\ UNCHANGED <<attempt, shift, next_url>>

\* lines 180-210: reset of the crawl state, launch, first navigation,
\* first probe of the page count
StartRun ==
    /\ UNCHANGED notCrawl
    /\ pc \in {"idle", "done", "failed"}
    /\ stop_reason # "save_raw_products_failed"
    /\ runs < MaxRuns
    /\ runs' = runs + 1
    /\ all_products' = <<>>
    /\ seen_avito_ids' = {}
    /\ extracted_ids' = {}
    /\ persisted_ids' = {}
    /\ last_new_ids' = {}
    /\ last_page' = NoPage
    /\ last_probe' = NoProbe
    /\ revisit_nav' = FALSE
    /\ pages_parsed' = 0
    /\ consecutive_empty_pages' = 0
    /\ current_page_num' = 1
    /\ UNCHANGED <<raw_store, max_pages>>
    /\ \E launch_ok \in BOOLEAN :
         IF ~launch_ok
         THEN /\ Finish("browser_launch_failed", "failed")
              /\ visited_urls' = {}
              /\ total_pages' = 0
              /\ page_url' = NoUrl
         ELSE \E success \in NavigateOutcomes :
                IF ~success
                THEN /\ Finish("initial_navigation_failed", "done")
                     /\ visited_urls' = {}
                     /\ total_pages' = 0
                     /\ page_url' \in {NoUrl, category_url}
                ELSE /\ visited_urls' = {NormalizeUrlForComparison(category_url)}
                     /\ page_url' = category_url
                     /\ \E total \in TotalPagesOutcomes : total_pages' = total
                     /\ pc' = "parse"
                     /\ stop_reason' = ""
                     /\ UNCHANGED <<attempt, shift, next_url>>

\* lines 222-297: parse the current page, keep the new products, check the
\* stop conditions. save_ok = FALSE: save_raw_products raised (sqlite3.Error
\* in executemany or commit, re-raised at lines 326-334); nothing of the
\* batch is committed and the exception leaves scrape_all
ParsePage ==
    /\ UNCHANGED notCrawl
    /\ pc = "parse"
    /\ \E catalog_found \in WaitOutcomes, cards \in PageCards, save_ok \in BOOLEAN :
         LET products == ParseCurrentPage(catalog_found, cards, runs)
             r == ScrapePage(products, seen_avito_ids, all_products, raw_store,
                             consecutive_empty_pages)
             after == StopAfterPage(max_pages, current_page_num, total_pages)
             save_failed == ~save_ok /\ r.saved # <<>>
         IN  /\ seen_avito_ids' = r.seen
             /\ extracted_ids' = extracted_ids \cup Ids(products)
             /\ last_new_ids' = Ids(r.new_products)
             /\ last_page' = [total |-> Len(products),
                              duplicates |-> Len(products) - Len(r.new_products),
                              products |-> products]
             /\ pages_parsed' = pages_parsed + 1
             /\ IF save_failed
                THEN /\ UNCHANGED <<all_products, raw_store, persisted_ids,
                                    consecutive_empty_pages>>
                     /\ Finish("save_raw_products_failed", "failed")
                ELSE /\ all_products' = r.all
                     /\ raw_store' = r.store
                     /\ consecutive_empty_pages' = r.empty_pages
                     /\ persisted_ids' = persisted_ids \cup Ids(r.saved)
                     /\ IF r.stop # "" THEN Finish(r.stop, "done")
                        ELSE IF after # "" THEN Finish(after, "done")
                        ELSE /\ pc' = "find"
                             /\ attempt' = 1
                             /\ UNCHANGED <<shift, next_url, stop_reason>>
    /\ UNCHANGED <<visited_urls, total_pages, current_page_num, page_url, runs,
                   max_pages, revisit_nav>>
    /\ last_probe' = NoProbe

\* AcceptTarget without the visited check of lines 884-885 and 914-915
AcceptTargetUnchecked(url) ==
    /\ visited_urls' = visited_urls \cup {NormalizeUrlForComparison(url)}
    /\ next_url' = url
    /\ pc' = "goto"
    /\ attempt' = 0
    /\ shift' = 0
    /\ UNCHANGED stop_reason

\* lines 882-901 and 913-931: the resolved URL is checked against the
\* visited set, recorded and returned
AcceptTarget(url) ==
    IF CycleByUrl(url, visited_urls)
    THEN /\ Finish("pagination_cycle_detected_by_url", "done")
         /\ UNCHANGED visited_urls
    ELSE /\ visited_urls' = visited_urls \cup {NormalizeUrlForComparison(url)}
         /\ next_url' = url
         /\ pc' = "goto"
         /\ attempt' = 0
         /\ shift' = 0
         /\ UNCHANGED stop_reason

\* lines 876-910: one attempt's direct look for the button of page
\* current + 1
FindDirect ==
    /\ UNCHANGED notCrawl
    /\ pc = "find"
    /\ \E view \in PaginationViews(current_page_num + 1) :
         IF view.target # NoUrl
         THEN AcceptTarget(view.target)
         ELSE /\ pc' = "shift"
              /\ shift' = 1
              /\ UNCHANGED <<visited_urls, attempt, next_url, stop_reason>>
    /\ UNCHANGED <<seen_avito_ids, total_pages, current_page_num,
                   consecutive_empty_pages, all_products, page_url, raw_store,
                   runs, max_pages, extracted_ids, persisted_ids, last_new_ids,
                   last_page, last_probe,
                   revisit_nav, pages_parsed>>

\* _navigate_pagination_window returned "": on to step 3 of the attempt
ShiftFailed ==
    /\ pc' = "find_retry"
    /\ shift' = 0
    /\ UNCHANGED <<visited_urls, attempt, next_url, stop_reason>>

\* lines 743-847: one pass of the window-shift loop
ShiftWindow ==
    /\ UNCHANGED notCrawl
    /\ pc = "shift"
    /\ \E view \in PaginationViews(current_page_num + 1) :
         IF view.target # NoUrl
         THEN /\ AcceptTarget(view.target)
              /\ UNCHANGED <<page_url, revisit_nav>>
         ELSE IF view.best = NoUrl
         THEN /\ ShiftFailed
              /\ UNCHANGED <<page_url, revisit_nav>>
         ELSE \E goto_ok \in BOOLEAN :
                IF ~goto_ok
                THEN /\ ShiftFailed
                     /\ UNCHANGED <<page_url, revisit_nav>>
                ELSE /\ page_url' = view.best
                     /\ revisit_nav' =
                          (revisit_nav \/
                           NormalizeUrlForComparison(view.best) \in visited_urls)
                     /\ \E is_blocked \in BlockedOutcomes,
                           catalog_found \in WaitOutcomes :
                          IF is_blocked \/ ~catalog_found \/ shift >= max_shifts
                          THEN ShiftFailed
                          ELSE /\ shift' = shift + 1
                               /\ UNCHANGED <<pc, visited_urls, attempt,
                                              next_url, stop_reason>>
    /\ UNCHANGED <<seen_avito_ids, total_pages, current_page_num,
                   consecutive_empty_pages, all_products, raw_store, runs,
                   max_pages, extracted_ids, persisted_ids, last_new_ids,
                   last_page, last_probe,
                   pages_parsed>>

\* lines 933-976: block check, exhaustion, reload before the next attempt
FindRetry ==
    /\ UNCHANGED notCrawl
    /\ pc = "find_retry"
    /\ \E is_blocked \in BlockedOutcomes :
         IF is_blocked THEN Finish("pagination_retry_blocked", "done")
         ELSE IF attempt >= MAX_ELEMENT_RETRIES
         THEN Finish("next_page_button_not_found_after_retries", "done")
         ELSE /\ attempt' = attempt + 1
              /\ pc' = "find"
              /\ UNCHANGED <<shift, next_url, stop_reason>>
    /\ UNCHANGED <<visited_urls, seen_avito_ids, total_pages, current_page_num,
                   consecutive_empty_pages, all_products, page_url, raw_store,
                   runs, max_pages, extracted_ids, persisted_ids, last_new_ids,
                   last_page, last_probe,
                   revisit_nav, pages_parsed>>

\* _go_to_next_page lines 1006-1066 and scrape_all lines 299-314: load the
\* resolved URL, check it, advance the cursor, re-probe the page count
GoToNextPage ==
    /\ UNCHANGED notCrawl
    /\ pc = "goto"
    /\ \E goto_ok \in BOOLEAN :
         IF ~goto_ok
         THEN /\ Finish("next_page_navigation_failed", "done")
              /\ UNCHANGED <<page_url, current_page_num, total_pages,
                             last_probe>>
         ELSE /\ page_url' = next_url
              /\ \E is_blocked \in BlockedOutcomes :
                   IF is_blocked
                   THEN /\ Finish("next_page_blocked", "done")
                        /\ UNCHANGED <<current_page_num, total_pages,
                                       last_probe>>
                   ELSE \E catalog_found \in WaitOutcomes :
                          IF ~catalog_found
                          THEN /\ Finish("next_page_catalog_not_found", "done")
                               /\ UNCHANGED <<current_page_num, total_pages,
                                              last_probe>>
                          ELSE /\ current_page_num' = current_page_num + 1
                               /\ \E updated_total \in TotalPagesOutcomes :
                                    /\ total_pages' =
                                         UpdateTotalPages(total_pages, updated_total)
                                    /\ last_probe' = [probed |-> TRUE,
                                                      total |-> updated_total]
                               /\ pc' = "parse"
                               /\ next_url' = NoUrl
                               /\ UNCHANGED <<attempt, shift, stop_reason>>
    /\ UNCHANGED <<visited_urls, seen_avito_ids, consecutive_empty_pages,
                   all_products, raw_store, runs, max_pages, extracted_ids,
                   persisted_ids, last_new_ids, last_page, revisit_nav,
                   pages_parsed>>

CrawlNext ==
    \/ StartRun
    \/ ParsePage
    \/ FindDirect
    \/ ShiftWindow
    \/ FindRetry
    \/ GoToNextPage

SpecCrawl == CrawlInit /\ [][CrawlNext]_vars


\* One scrape_all run from construction. The control flow of a run reads
\* neither the store nor the run counter, and StartRun resets every other
\* crawl variable, so the first run stands for every run. The event loop
\* runs the single crawl task whenever it can take a step.
FirstRun == runs = 0 /\ StartRun

FirstRunNext ==
    \/ FirstRun
    \/ ParsePage
    \/ FindDirect
    \/ ShiftWindow
    \/ FindRetry
    \/ GoToNextPage

FairCrawl == CrawlInit /\ [][FirstRunNext]_vars /\ WF_vars(FirstRunNext)

Ended == {"done", "failed"}

NoDuplicateIds(products) ==
    \A i, j \in DOMAIN products :
        products[i].avito_id = products[j].avito_id => i = j

--------------------------------------------------------------------------
\* C1: every scrape_all run reaches a stop: the cursor never passes the
\* number of page identities the catalog has, next-page resolution makes at
\* most MAX_ELEMENT_RETRIES attempts of at most max_shifts window shifts
\* each, and a started run always ends
C1_CrawlTerminates ==
    /\ [](current_page_num <= Cardinality(PageIdentities))
    /\ [](attempt <= MAX_ELEMENT_RETRIES /\ shift <= max_shifts)
    /\ (pc \notin Ended) ~> (pc \in Ended)

\* a catalog whose next-page link leads back to page 1, with page limit 0
\* and no detectable page count, has been crawled to its stop
C1_Witness ==
    /\ pc = "done"
    /\ stop_reason = "pagination_cycle_detected_by_url"
    /\ max_pages = 0
    /\ total_pages = 0

\* C2: the browser is never sent to a page whose identity is already in
\* the visited set
C2_NeverNavigatesToVisited == ~revisit_nav

\* C3: when scrape_all has returned, the ids persisted by the run are the
\* ids extracted from the parsed pages, the returned list holds exactly
\* those ids, and none of them twice
C3_DedupComplete ==
    pc = "done" =>
        /\ persisted_ids = extracted_ids
        /\ Ids(all_products) = extracted_ids
        /\ NoDuplicateIds(all_products)
        /\ extracted_ids \subseteq {r.avito_id : r \in raw_store}

\* a run over several pages whose listings repeat has returned
C3_Witness ==
    /\ pc = "done"
    /\ pages_parsed >= 2
    /\ Cardinality(extracted_ids) = 5
    /\ Len(all_products) = 5

\* C4: a next page classified as blocked right after its load does not end
\* the crawl at once (the unblock loop reloads and re-classifies first)
C4_BlockedPageIsRetried ==
    [][(pc = "goto" /\ pc' = "done") => stop_reason' # "next_page_blocked"]_vars

\* C5: when the pagination-cycle stop triggers, the crawl is over with the
\* page's new listings persisted and in the returned list, and no further
\* page has been parsed
C5_CycleStopKeepsNew ==
    stop_reason = "pagination_cycle" =>
        /\ pc = "done"
        /\ last_new_ids \subseteq persisted_ids
        /\ last_new_ids \subseteq Ids(all_products)
        /\ last_new_ids \subseteq {r.avito_id : r \in raw_store}
        /\ pages_parsed = current_page_num

\* the stop triggered on a later page that still had a new listing
C5_Witness ==
    /\ stop_reason = "pagination_cycle"
    /\ pages_parsed >= 2
    /\ last_new_ids # {}

--------------------------------------------------------------------------
\* main, lines 261-276: the exit status of the process when run_pipeline
\* ended with exc ("": it returned). KeyboardInterrupt is logged and main
\* goes on to return; any other exception ends in sys.exit(1)
ExitStatus(exc) ==
    IF exc = "" THEN 0
    ELSE IF exc = "KeyboardInterrupt" THEN 0
    ELSE 1

\* run_pipeline ends: normally, or with the exception exc
PipeEnd(exc) ==
    /\ pl_pc' = "end"
    /\ pl_exc' = exc

\* run_pipeline enters its finally block with the exception exc pending
PipeFinally(exc) ==
    /\ pl_pc' = "close_browser"
    /\ pl_exc' = exc

\* how a stage of the pipeline ends: it returns, raises, or the process is
\* interrupted while it runs
StageOutcomes == {"returned", "raised", "interrupted"}

StageException(outcome) ==
    IF outcome = "raised" THEN "Exception" ELSE "KeyboardInterrupt"

\* __main__.py line 155, create_repository lines 47-51 with
\* _get_connection lines 50-74 and initialize lines 125-141
PipeCreateRepository ==
    /\ pl_pc = "idle"
    /\ \E outcome \in {"ok", "connect_failed", "pragma_failed", "init_failed"} :
         CASE outcome = "ok" ->
                /\ db' = "open"
                /\ pl_pc' = "launch"
                /\ UNCHANGED pl_exc
           [] outcome = "connect_failed" ->
                /\ db' = "none"
                /\ PipeEnd("RuntimeError")
           [] OTHER ->
                /\ db' = "open"
                /\ PipeEnd("RuntimeError")
    /\ UNCHANGED <<br, br_live, ai, pl_launch, crawlVars,
                   notPipeCrawl>>

\* scrape_all line 185: BrowserService.launch; a failed launch closes what
\* it acquired and raises RuntimeError
PipeLaunch ==
    /\ pl_pc = "launch"
    /\ \E fail_at \in LaunchFailures, close_fail \in CloseFailures :
         LET got == LaunchAcquired(fail_at)
             closed == BrowserClose(got.handles, got.live, close_fail)
         IN  /\ IF fail_at = "none"
                THEN /\ br' = got.handles
                     /\ br_live' = got.live
                     /\ pl_pc' = "crawl"
                     /\ UNCHANGED pl_exc
                ELSE /\ br' = closed.handles
                     /\ br_live' = closed.live
                     /\ PipeFinally("RuntimeError")
             /\ pl_launch' = [fail_at |-> fail_at,
                              leaked |-> IF fail_at = "none" THEN {}
                                         ELSE closed.live]
    /\ UNCHANGED <<db, ai, crawlVars, notPipeCrawl>>

\* InitialNavigationFailed recording the start page as visited before the
\* result of navigate is tested
InitialNavigationFailedMarksVisited ==
    /\ runs' = runs + 1
    /\ all_products' = <<>>
    /\ seen_avito_ids' = {}
    /\ extracted_ids' = {}
    /\ persisted_ids' = {}
    /\ last_new_ids' = {}
    /\ last_page' = NoPage
    /\ last_probe' = NoProbe
    /\ revisit_nav' = FALSE
    /\ pages_parsed' = 0
    /\ consecutive_empty_pages' = 0
    /\ current_page_num' = 1
    /\ visited_urls' = {NormalizeUrlForComparison(category_url)}
    /\ total_pages' = 0
    /\ page_url' \in {NoUrl, category_url}
    /\ Finish("initial_navigation_failed", "done")
    /\ UNCHANGED <<raw_store, max_pages>>

\* scrape_all lines 180-195 after launch returned: the crawl state is
\* reset, navigate returns False and scrape_all returns the empty list
InitialNavigationFailed ==
    /\ runs' = runs + 1
    /\ all_products' = <<>>
    /\ seen_avito_ids' = {}
    /\ extracted_ids' = {}
    /\ persisted_ids' = {}
    /\ last_new_ids' = {}
    /\ last_page' = NoPage
    /\ last_probe' = NoProbe
    /\ revisit_nav' = FALSE
    /\ pages_parsed' = 0
    /\ consecutive_empty_pages' = 0
    /\ current_page_num' = 1
    /\ visited_urls' = {}
    /\ total_pages' = 0
    /\ page_url' \in {NoUrl, category_url}
    /\ Finish("initial_navigation_failed", "done")
    /\ UNCHANGED <<raw_store, max_pages>>

\* __main__.py line 173: the rest of scrape_all. It ends at once when the
\* first navigation fails (FALSE \in NavigateOutcomes); otherwise it
\* returns, raises, or is interrupted
PipeCrawl ==
    /\ pl_pc = "crawl"
    /\ \/ /\ FALSE \in NavigateOutcomes
          /\ InitialNavigationFailed
          /\ pl_pc' = "normalize"
          /\ UNCHANGED pl_exc
       \/ /\ \E outcome \in StageOutcomes :
               IF outcome = "returned"
               THEN pl_pc' = "normalize" /\ UNCHANGED pl_exc
               ELSE PipeFinally(StageException(outcome))
          /\ UNCHANGED crawlVars
    /\ UNCHANGED <<db, br, br_live, ai, pl_launch, notPipeCrawl>>

\* __main__.py line 192: normalize_all; the HTTP session is created by the
\* first classifier request (AIService._get_session)
PipeNormalize ==
    /\ pl_pc = "normalize"
    /\ \E requested \in BOOLEAN, outcome \in StageOutcomes :
         /\ ai' = IF requested THEN "open" ELSE ai
         /\ IF outcome = "returned"
            THEN pl_pc' = "export" /\ UNCHANGED pl_exc
            ELSE PipeFinally(StageException(outcome))
    /\ UNCHANGED <<db, br, br_live, pl_launch, crawlVars,
                   notPipeCrawl>>

\* __main__.py line 210: export
PipeExport ==
    /\ pl_pc = "export"
    /\ \E outcome \in StageOutcomes :
         PipeFinally(IF outcome = "returned" THEN "" ELSE StageException(outcome))
    /\ UNCHANGED <<db, br, br_live, ai, pl_launch, crawlVars,
                   notPipeCrawl>>

\* __main__.py line 225
PipeCloseBrowser ==
    /\ pl_pc = "close_browser"
    /\ \E close_fail \in CloseFailures :
         LET closed == BrowserClose(br, br_live, close_fail)
         IN  /\ br' = closed.handles
             /\ br_live' = closed.live
    /\ pl_pc' = "close_ai"
    /\ UNCHANGED <<pl_exc, db, ai, pl_launch, crawlVars,
                   notPipeCrawl>>

\* __main__.py line 226: an exception of AIService.close leaves the finally
\* block at once
PipeCloseAI ==
    /\ pl_pc = "close_ai"
    /\ \E close_ok \in BOOLEAN :
         LET closed == AIClose(ai, close_ok)
         IN  /\ ai' = closed.session
             /\ IF closed.raised THEN PipeEnd("Exception")
                ELSE pl_pc' = "close_repository" /\ UNCHANGED pl_exc
    /\ UNCHANGED <<db, br, br_live, pl_launch, crawlVars,
                   notPipeCrawl>>

\* __main__.py lines 227-228
PipeCloseRepository ==
    /\ pl_pc = "close_repository"
    /\ \E close_ok \in BOOLEAN : db' = RepositoryClose(db, close_ok)
    /\ PipeEnd(pl_exc)
    /\ UNCHANGED <<br, br_live, ai, pl_launch, crawlVars,
                   notPipeCrawl>>

PipeNext ==
    \/ PipeCreateRepository
    \/ PipeLaunch
    \/ PipeCrawl
    \/ PipeNormalize
    \/ PipeExport
    \/ PipeCloseBrowser
    \/ PipeCloseAI
    \/ PipeCloseRepository

SpecPipeline == CrawlInit /\ [][PipeNext]_vars

\* C6: when run_pipeline has ended, on whatever path, the storage
\* connection, the browser-side resources and the classifier HTTP session
\* it acquired have been released
C6_AllResourcesReleased ==
    pl_pc = "end" => (db # "open" /\ br_live = {} /\ ai # "open")

\* C22: a launch that fails makes one attempt, has released what it had
\* acquired when it raises, and the run ends with an exception and a
\* non-zero exit status
C22_LaunchFailureIsFatal ==
    pl_launch.fail_at \notin {"", "none"} =>
        /\ pl_launch.leaked = {}
        /\ pl_pc # "crawl"
        /\ pl_pc = "end" => (pl_exc # "" /\ ExitStatus(pl_exc) # 0)

--------------------------------------------------------------------------
\* NormalizerService.normalize_all as a state machine

NormInit ==
    /\ CrawlIdle
    /\ raw_store \in RawStores
    /\ PipeIdle
    /\ RetryIdle
    /\ StoreIdle
    /\ BrowserIdle
    /\ norm_pc = "idle"
    /\ norm_exc = ""
    /\ norm_store = {}
    /\ batch_size \in 1..MaxBatchSize
    /\ ai_max_retries \in 1..MaxAIRetries
    /\ batches = <<>>
    /\ batch_index = 0
    /\ ai_attempt = 0
    /\ all_normalized = <<>>
    /\ norm_runs = 0
    /\ last_batch = <<>>
    /\ last_text = <<>>
    /\ last_failure = ""
    /\ last_produced = <<>>
    /\ store_before = {}
    /\ norm_trace = <<>>

\* normalize_all lines 63-77: fetch, early return, split
NormStart ==
    /\ norm_pc \in {"idle", "done", "raised"}
    /\ norm_runs < MaxNormRuns
    /\ LET raw_products == GetRawProductsWithoutNormalization(raw_store, norm_store)
       IN  IF raw_products = <<>>
           THEN /\ norm_pc' = "done"
                /\ batches' = <<>>
                /\ batch_index' = 0
                /\ ai_attempt' = 0
           ELSE /\ norm_pc' = "batch"
                /\ batches' = SplitIntoBatches(raw_products, batch_size)
                /\ batch_index' = 1
                /\ ai_attempt' = 1
    /\ norm_runs' = norm_runs + 1
    /\ norm_exc' = ""
    /\ all_normalized' = <<>>
    /\ last_batch' = <<>>
    /\ last_text' = <<>>
    /\ last_failure' = ""
    /\ last_produced' = <<>>
    /\ store_before' = norm_store
    /\ norm_trace' = <<>>
    /\ UNCHANGED <<norm_store, batch_size, ai_max_retries>>
    /\ UNCHANGED notNorm

\* the kinds of classifier failure: transport error, non-2xx status, empty
\* answer, answer without a [ ] pair or with invalid JSON inside it
NotFence(t) == t.tok \notin {"fence_json", "fence"}

Unparsable(text) ==
    LET body == SelectSeq(text, NotFence)
        first == FirstIndex(body, {"["}, 1)
        last == LastIndex(body, {"]"})
    IN  first = 0 \/ last = 0 \/ ~ValidJsonArray(SubSeq(body, first, last))

CallFailure(resp) ==
    IF resp.kind = "client_error" THEN "transport"
    ELSE IF resp.status < 200 \/ resp.status > 299 THEN "status"
    ELSE IF resp.status # 200 THEN "not_200"
    ELSE IF ~resp.choices \/ resp.content = <<>> THEN "empty"
    ELSE IF Unparsable(resp.content) THEN "unparsable"
    ELSE ""

\* an entry of norm_trace: the first request of batch k, the write of its
\* results, the sleep that follows it
Event(ev, k) == [ev |-> ev, k |-> k]

\* DelayFollows sleeping after every batch
DelayFollowsEveryBatch(k, n) == TRUE

\* normalize_all line 90: the sleep is skipped after the last batch
DelayFollows(k, n) == k < n

\* normalize_all lines 79-89 with _process_batch: one attempt of the
\* classifier request; the wrapper sleeps and tries again, or the call ends
\* and the batch is mapped and saved
ProcessBatchOver(responses) ==
    /\ norm_pc = "batch"
    /\ \E resp \in responses :
         LET batch == batches[batch_index]
             step == RetryStep(ai_attempt, ai_max_retries, DoRequest(resp), 1, 2)
             call == IF step.act = "raise"
                     THEN [exc |-> step.exc, val |-> <<>>]
                     ELSE NormalizeBatch(step.val)
             r == ProcessBatchResult(batch, call, norm_store, norm_runs)
             requested == IF ai_attempt = 1
                          THEN Append(norm_trace, Event("request", batch_index))
                          ELSE norm_trace
             written == IF r.normalized # <<>>
                        THEN Append(requested, Event("persisted", batch_index))
                        ELSE requested
         IN  IF step.act = "sleep"
             THEN /\ ai_attempt' = ai_attempt + 1
                  /\ norm_trace' = requested
                  /\ UNCHANGED <<norm_pc, norm_exc, norm_store, batch_index,
                                 all_normalized, last_batch, last_text,
                                 last_failure, last_produced, store_before>>
             ELSE /\ last_batch' = batch
                  /\ last_text' = resp.content
                  /\ last_failure' = CallFailure(resp)
                  /\ last_produced' = r.normalized
                  /\ store_before' = norm_store
                  /\ norm_store' = r.store
                  /\ IF r.exc # ""
                     THEN /\ norm_pc' = "raised"
                          /\ norm_exc' = r.exc
                          /\ norm_trace' = written
                          /\ UNCHANGED <<batch_index, ai_attempt, all_normalized>>
                     ELSE /\ all_normalized' = all_normalized \o r.normalized
                          /\ norm_exc' = ""
                          /\ norm_trace' =
                               IF DelayFollows(batch_index, Len(batches))
                               THEN Append(written, Event("delay", batch_index))
                               ELSE written
                          /\ IF batch_index < Len(batches)
                             THEN /\ batch_index' = batch_index + 1
                                  /\ ai_attempt' = 1
                                  /\ norm_pc' = "batch"
                             ELSE /\ norm_pc' = "done"
                                  /\ UNCHANGED <<batch_index, ai_attempt>>
    /\ UNCHANGED <<batch_size, ai_max_retries, batches, norm_runs>>
    /\ UNCHANGED notNorm

ProcessBatch == ProcessBatchOver(HttpResponses)

NormNext == NormStart \/ ProcessBatch

SpecNorm == NormInit /\ [][NormNext]_vars

\* C7: a classifier call that fails (transport error through all retries,
\* non-2xx status, empty answer, unparsable answer) makes _process_batch
\* return an empty result and persist nothing, and normalize_all does not
\* abort
C7_FailedCallDropsOnlyBatch ==
    last_failure \in {"transport", "status", "empty", "unparsable"} =>
        /\ norm_pc # "raised"
        /\ last_produced = <<>>
        /\ norm_store = store_before

\* C8: an answer with no [ ] pair or with invalid JSON inside it, fenced or
\* not, the fence closed or not, fails only its batch: no exception leaves
\* normalize_all and no record of the batch is normalized or persisted
C8_MalformedAnswerFailsOnlyBatch ==
    (last_text # <<>> /\ Unparsable(last_text)) =>
        /\ norm_exc = ""
        /\ \A i \in DOMAIN last_batch :
             /\ last_batch[i].avito_id \notin Ids(last_produced)
             /\ {r \in norm_store : r.avito_id = last_batch[i].avito_id}
                  = {r \in store_before : r.avito_id = last_batch[i].avito_id}

\* the ids an answer holds results for
ResultIds(text) == {text[i].id : i \in {j \in DOMAIN text : IsResult(text[j])}}

\* every fence of the answer is closed
FencesClosed(text) ==
    Cardinality({i \in DOMAIN text : ~NotFence(text[i])}) % 2 = 0

\* C9: for a well-formed answer holding results for a subset S of the
\* batch's ids, _process_batch produces and persists exactly |S|
\* NormalizedListings, each with the id, price, URL and capture timestamp
\* of its raw listing
C9_ExactlySProduced ==
    (last_failure = "" /\ last_batch # <<>> /\ FencesClosed(last_text)
        /\ ResultIds(last_text) \subseteq Ids(last_batch)) =>
        LET S == ResultIds(last_text)
            written == {r \in norm_store :
                          /\ r.avito_id \in S
                          /\ r.normalized_at = SerializeDatetime(norm_runs)}
        IN  /\ Len(last_produced) = Cardinality(S)
            /\ Cardinality(written) = Cardinality(S)
            /\ \A i \in DOMAIN last_produced :
                 \E j \in DOMAIN last_batch :
                    /\ last_produced[i].avito_id = last_batch[j].avito_id
                    /\ last_produced[i].price = last_batch[j].price
                    /\ last_produced[i].url = last_batch[j].url
                    /\ last_produced[i].scraped_at = last_batch[j].scraped_at
            /\ \A r \in written :
                 \E q \in raw_store :
                    /\ q.avito_id = r.avito_id
                    /\ q.price = r.price
                    /\ q.url = r.url
                    /\ q.scraped_at = r.scraped_at

--------------------------------------------------------------------------
\* The retry wrapper as a state machine

\* the decorated function is called: lines 56-57
RetryCall ==
    /\ rt_pc = "idle"
    /\ rt_pc' = "calling"
    /\ rt_max_retries' \in 0..MaxRetries
    /\ rt_backoff' \in 1..2
    /\ rt_delay' \in 1..2
    /\ rt_delay0' = rt_delay'
    /\ rt_attempt' = 1
    /\ UNCHANGED <<rt_history, rt_sleeps, rt_result>>
    /\ UNCHANGED notRetry

\* one pass of the for loop, lines 59-87
RetryAttempt ==
    /\ rt_pc = "calling"
    /\ rt_attempt <= rt_max_retries
    /\ \E outcome \in RetryOutcomes :
         LET step == RetryStep(rt_attempt, rt_max_retries, outcome, rt_delay,
                               rt_backoff)
         IN  /\ rt_history' = Append(rt_history, outcome)
             /\ IF step.act = "sleep"
                THEN /\ rt_sleeps' = Append(rt_sleeps, step.sleep)
                     /\ rt_delay' = step.delay
                     /\ rt_attempt' = rt_attempt + 1
                     /\ UNCHANGED <<rt_pc, rt_result>>
                ELSE /\ rt_pc' = IF step.act = "return" THEN "returned"
                                 ELSE "raised"
                     /\ rt_result' = [exc |-> step.exc, val |-> step.val]
                     /\ UNCHANGED <<rt_sleeps, rt_delay, rt_attempt>>
    /\ UNCHANGED <<rt_max_retries, rt_backoff, rt_delay0>>
    /\ UNCHANGED notRetry

\* the loop ran out, lines 89-90 and the implicit return None
RetryLoopExit ==
    /\ rt_pc = "calling"
    /\ rt_attempt > rt_max_retries
    /\ IF rt_history # <<>>
       THEN /\ rt_pc' = "raised"
            /\ rt_result' = [exc |-> rt_history[Len(rt_history)].exc,
                             val |-> rt_history[Len(rt_history)].val]
       ELSE /\ rt_pc' = "returned"
            /\ rt_result' = NoResult
    /\ UNCHANGED <<rt_max_retries, rt_backoff, rt_delay, rt_delay0, rt_attempt,
                   rt_history, rt_sleeps>>
    /\ UNCHANGED notRetry

RetryNext == RetryCall \/ RetryAttempt \/ RetryLoopExit

SpecRetry == CrawlInit /\ [][RetryNext]_vars

AllMatching(history) == \A i \in DOMAIN history : history[i].kind = "matching"

\* C10: when every attempt fails with a matching exception the wrapper
\* stops after max_retries attempts and raises the exception of the last
\* attempt; when an attempt succeeds the wrapper returns that attempt's
\* result and the operation is not invoked again
C10_RetryStopsAndReraisesLast ==
    /\ Len(rt_history) <= rt_max_retries
    /\ (rt_pc = "raised" /\ AllMatching(rt_history)) =>
          /\ Len(rt_history) = rt_max_retries
          /\ rt_result.exc = rt_history[Len(rt_history)].exc
    /\ \A i \in DOMAIN rt_history :
          rt_history[i].kind = "ok" =>
             /\ i = Len(rt_history)
             /\ rt_pc = "returned"
             /\ rt_result = [exc |-> "", val |-> rt_history[i].val]

C10_Witness ==
    /\ rt_pc = "raised"
    /\ Len(rt_history) = 3
    /\ AllMatching(rt_history)
    /\ rt_history[1].exc # rt_history[3].exc

--------------------------------------------------------------------------
\* The repository used directly: single and batch upserts of raw listings

\* raw listings handed to the repository: an id with one of two prices
StoreProducts ==
    {[avito_id |-> i, title |-> "T", price |-> v, url |-> "/item",
      scraped_at |-> 1] : i \in 1..MaxRaw, v \in {10, 20}}

StoreBatches == UNION {[1..n -> StoreProducts] : n \in 0..2}

\* SQLiteProductRepository.save_raw_product, lines 219-272, on a connection
\* that reads view while the database file holds committed: one INSERT,
\* then commit, which makes everything the connection wrote durable. ok =
\* FALSE: the statement raised sqlite3.Error, which is logged and re-raised
SaveRawProductCall(view, committed, product, ok) ==
    IF ok
    THEN LET v == SaveRawProduct(view, product)
         IN  [view |-> v, committed |-> v, raised |-> FALSE]
    ELSE [view |-> view, committed |-> committed, raised |-> TRUE]

\* SQLiteProductRepository.save_raw_products, lines 274-334: nothing happens
\* for an empty list (lines 280-281); otherwise executemany, then commit.
\* fail_at = 0: both succeed. fail_at = k: the INSERT of row k raised (k =
\* Len + 1: the commit raised); the rows before k stay written in the open
\* transaction, the handler (lines 326-334) logs and re-raises and does not
\* roll back
SaveRawProductsCall(view, committed, products, fail_at) ==
    IF products = <<>>
    THEN [view |-> view, committed |-> committed, raised |-> FALSE]
    ELSE IF fail_at = 0
    THEN LET v == SaveRawProducts(view, products)
         IN  [view |-> v, committed |-> v, raised |-> FALSE]
    ELSE [view |-> SaveRawProducts(view, SubSeq(products, 1, fail_at - 1)),
          committed |-> committed, raised |-> TRUE]

\* SQLiteProductRepository.save_raw_product called by a user of the
\* repository with a product of the set products, the statement succeeding
\* or not as oks allows; raw_store is the table as the repository reads it
StoreSaveRawProductOver(products, oks) ==
    /\ \E product \in products, ok \in oks :
         LET r == SaveRawProductCall(raw_store, st_committed, product, ok)
         IN  /\ raw_store' = r.view
             /\ st_committed' = r.committed
             /\ st_failed' = r.raised
             /\ st_last' = <<product>>
    /\ st_before' = raw_store
    /\ UNCHANGED notStore

\* SQLiteProductRepository.save_raw_products called by a user of the
\* repository with a list of the set lists; may_fail: a row or the
\* commit can raise
StoreSaveRawProductsOver(lists, may_fail) ==
    /\ \E products \in lists :
         \E fail_at \in 0..(IF may_fail THEN Len(products) + 1 ELSE 0) :
            LET r == SaveRawProductsCall(raw_store, st_committed, products,
                                         fail_at)
            IN  /\ raw_store' = r.view
                /\ st_committed' = r.committed
                /\ st_failed' = r.raised
                /\ st_last' = products
    /\ st_before' = raw_store
    /\ UNCHANGED notStore

\* writes that succeed, over all of StoreProducts
StoreSaveRawProduct == StoreSaveRawProductOver(StoreProducts, {TRUE})

StoreSaveRawProducts == StoreSaveRawProductsOver(StoreBatches, FALSE)

StoreNext == StoreSaveRawProduct \/ StoreSaveRawProducts

SpecStore == CrawlInit /\ [][StoreNext]_vars

\* the row a store holds for an id
RowsOf(store, id) == {r \in store : r.avito_id = id}

\* the last product of a list that carries the id
LatestOf(products, id) ==
    products[CHOOSE i \in DOMAIN products :
                /\ products[i].avito_id = id
                /\ \A j \in DOMAIN products :
                      products[j].avito_id = id => j <= i]

\* C11: the store holds at most one RawListing per id; a save of an id
\* already stored replaces the record by the new values and leaves the
\* record count unchanged
C11_UpsertKeepsOnePerId ==
    /\ \A r \in raw_store : RowsOf(raw_store, r.avito_id) = {r}
    /\ ~st_failed =>
          /\ \A id \in Ids(st_last) :
                RowsOf(raw_store, id) =
                   {[LatestOf(st_last, id)
                        EXCEPT !.scraped_at = SerializeDatetime(@)]}
          /\ \A r \in st_before :
                r.avito_id \notin Ids(st_last) => r \in raw_store
          /\ Cardinality(raw_store) =
                Cardinality(st_before)
                   + Cardinality(Ids(st_last) \ {r.avito_id : r \in st_before})

\* an id already stored was saved again with another price, and the store
\* has as many records as before
C11_Witness ==
    /\ ~st_failed
    /\ Len(st_last) = 1
    /\ \E r \in st_before :
          /\ r.avito_id = st_last[1].avito_id
          /\ r.price # st_last[1].price
    /\ Cardinality(raw_store) = Cardinality(st_before)
    /\ Cardinality(raw_store) >= 2

--------------------------------------------------------------------------
\* BrowserService used directly: launch and close in any order

\* BrowserService.launch on a service that holds nothing; a failed launch
\* closes what it acquired (line 205) and raises RuntimeError
BrowserLaunchCall ==
    /\ br_launches < MaxLaunches
    /\ br = NoHandles
    /\ br_live = {}
    /\ \E fail_at \in LaunchFailures, close_fail \in CloseFailures :
         LET got == LaunchAcquired(fail_at)
             closed == BrowserClose(got.handles, got.live, close_fail)
         IN  IF fail_at = "none"
             THEN /\ br' = got.handles
                  /\ br_live' = got.live
             ELSE /\ br' = closed.handles
                  /\ br_live' = closed.live
    /\ br_launches' = br_launches + 1
    /\ UNCHANGED <<br_closes, br_last, br_nav, br_wait, br_check>>
    /\ UNCHANGED notBrowser

\* BrowserService.close, called in whatever state the service is in
BrowserCloseCall ==
    /\ br_closes < MaxCloses
    /\ \E close_fail \in CloseFailures :
         LET closed == BrowserClose(br, br_live, close_fail)
         IN  /\ br' = closed.handles
             /\ br_live' = closed.live
             /\ br_last' = [before |-> br, after |-> closed.handles,
                            released |-> br_live \ closed.live,
                            raised |-> closed.raised]
    /\ br_closes' = br_closes + 1
    /\ UNCHANGED <<br_launches, br_nav, br_wait, br_check>>
    /\ UNCHANGED notBrowser

\* BrowserService.navigate, called in whatever state the service is in; the
\* page shows one of NavigateStatuses at the successive status checks and
\* page.goto succeeds or raises
BrowserNavigateCall ==
    /\ \E goto_ok \in BOOLEAN, sts \in NavigateStatuses :
         LET r == Navigate(br.page, goto_ok, sts)
         IN  br_nav' = [called |-> TRUE, has_page |-> br.page,
                        goto_ok |-> br.page /\ goto_ok,
                        sts |-> IF br.page /\ goto_ok THEN sts ELSE <<>>,
                        success |-> r.success, raised |-> r.raised,
                        loads |-> r.loads]
    /\ UNCHANGED <<br, br_live, br_launches, br_closes, br_last, br_wait,
                   br_check>>
    /\ UNCHANGED notBrowser

BrowserNext == BrowserLaunchCall \/ BrowserCloseCall \/ BrowserNavigateCall

SpecBrowser == CrawlInit /\ [][BrowserNext]_vars

\* C12: close raises nothing, whenever it is called and whichever of its
\* close calls fails; called on a service that holds nothing (before
\* launch, after a successful close) it releases nothing and changes nothing
C12_CloseNeverThrows ==
    /\ ~br_last.raised
    /\ br_last.before = NoHandles =>
          (br_last.released = {} /\ br_last.after = NoHandles)

\* close was called again after a launch and a close that released
\* everything
C12_Witness ==
    /\ br_launches >= 1
    /\ br_closes >= 2
    /\ br_last.before = NoHandles
    /\ br_live = {}

\* the status navigate stops at: the first "ok" or "blocked" among the
\* MAX_CLOUDFLARE_RETRIES checks of the loop, otherwise the final check
FinalClassification(sts) ==
    LET decisive == {i \in 1..MAX_CLOUDFLARE_RETRIES : sts[i] \in {"ok", "blocked"}}
    IN  IF decisive = {} THEN sts[MAX_CLOUDFLARE_RETRIES + 1]
        ELSE sts[CHOOSE i \in decisive : \A j \in decisive : i <= j]

\* C13: navigate raises nothing; called without a page, or when page.goto
\* fails, or when the page ends up blocked, in a challenge or unknown, it
\* returns False; it returns True only when the final classification is ok
C13_NavigateNeverRaises ==
    br_nav.called =>
        /\ ~br_nav.raised
        /\ ~br_nav.has_page => ~br_nav.success
        /\ (br_nav.has_page /\ ~br_nav.goto_ok) => ~br_nav.success
        /\ (br_nav.has_page /\ br_nav.goto_ok) =>
              (br_nav.success <=> FinalClassification(br_nav.sts) = "ok")

\* a launched browser whose page stayed in the challenge through every
\* check of the loop and through the final check
C13_Witness ==
    /\ br_nav.called /\ br_nav.has_page /\ br_nav.goto_ok
    /\ \A i \in 1..(MAX_CLOUDFLARE_RETRIES + 1) : br_nav.sts[i] = "cloudflare"
    /\ ~br_nav.success

--------------------------------------------------------------------------
\* the stops taken when the recovery of a page transition is exhausted:
\* next page not found after the retries, block seen between the retries,
\* next page blocked, catalog container absent, page.goto raised
RecoveryExhausted ==
    {"next_page_button_not_found_after_retries", "pagination_retry_blocked",
     "next_page_blocked", "next_page_catalog_not_found",
     "next_page_navigation_failed"}

\* C14: a crawl stopped by exhausted page-level recovery has returned
\* normally; the returned list holds every listing extracted so far, each
\* of them persisted
C14_ExhaustedRecoveryReturns ==
    stop_reason \in RecoveryExhausted =>
        /\ pc = "done"
        /\ Ids(all_products) = extracted_ids
        /\ persisted_ids = extracted_ids
        /\ \A i \in DOMAIN all_products :
              \E r \in raw_store : r.avito_id = all_products[i].avito_id

\* the transition to a third page raised after two pages with listings
C14_Witness ==
    /\ stop_reason = "next_page_navigation_failed"
    /\ pages_parsed >= 2
    /\ Len(all_products) >= 2

--------------------------------------------------------------------------
\* C15: every listing the crawl returned or stored has a non-empty id, a
\* non-empty title and a URL (a card without one of them was dropped)
C15_ListingHasIdTitleUrl ==
    /\ \A i \in DOMAIN all_products :
          /\ all_products[i].avito_id # 0
          /\ all_products[i].title # ""
          /\ all_products[i].url # ""
    /\ \A r \in raw_store : r.avito_id # 0 /\ r.title # "" /\ r.url # ""

--------------------------------------------------------------------------
\* Crawl and normalization runs over one database

\* the listings a crawl hands to save_raw_products: a listing of any id,
\* at its first price or at a changed one
CrawledProducts ==
    {[avito_id |-> i, title |-> "T", price |-> 10 * i + d, url |-> "/item",
      scraped_at |-> i] : i \in 1..MaxRaw, d \in {0, 5}}

\* scrape_all lines 248-255: the new listings of a page are written
CrawlSaves ==
    /\ \E product \in CrawledProducts :
         raw_store' = SaveRawProducts(raw_store, <<product>>)
    /\ UNCHANGED <<crawlCtl, pipeVars, normVars, retryVars, storeVars,
                   browserVars>>

\* the ways the wrapped classifier call of one batch can end: with the parsed
\* results of a response, or with the exception of its last attempt
FinalCalls(max_retries) ==
    {LET step == RetryStep(max_retries, max_retries, DoRequest(resp), 1, 2)
     IN  IF step.act = "raise" THEN [exc |-> step.exc, val |-> <<>>]
         ELSE NormalizeBatch(step.val) : resp \in HttpResponses}

FinalCallsTable == [m \in 1..MaxAIRetries |-> FinalCalls(m)]

\* normalize_all lines 79-102 from batch k on, over every way the calls can
\* end: the stores the pass can leave and the exception it ends with
RECURSIVE NormalizeAllOutcomes(_, _, _, _, _)
NormalizeAllOutcomes(bs, k, stores, calls, now) ==
    IF k > Len(bs) THEN {[store |-> st, exc |-> ""] : st \in stores}
    ELSE LET results == {ProcessBatchResult(bs[k], call, st, now) :
                            call \in calls, st \in stores}
             raised == {r \in results : r.exc # ""}
             saved == {r.store : r \in results \ raised}
         IN  {[store |-> r.store, exc |-> r.exc] : r \in raised}
                 \cup NormalizeAllOutcomes(bs, k + 1, saved, calls, now)

\* NormalizerService.normalize_all, one whole pass
NormalizeAll ==
    /\ norm_pc \in {"idle", "done", "raised"}
    /\ norm_runs < MaxNormRuns
    /\ LET raw_products == GetRawProductsWithoutNormalization(raw_store, norm_store)
           bs == SplitIntoBatches(raw_products, batch_size)
       IN  \E out \in NormalizeAllOutcomes(bs, 1, {norm_store},
                                           FinalCallsTable[ai_max_retries],
                                           norm_runs + 1) :
             /\ norm_store' = out.store
             /\ norm_exc' = out.exc
             /\ norm_pc' = IF out.exc = "" THEN "done" ELSE "raised"
    /\ norm_runs' = norm_runs + 1
    /\ store_before' = norm_store
    /\ UNCHANGED <<batch_size, ai_max_retries, batches, batch_index, ai_attempt,
                   all_normalized, last_batch, last_text, last_failure,
                   last_produced, norm_trace>>
    /\ UNCHANGED notNorm

RunsNext == CrawlSaves \/ NormalizeAll

SpecRuns == NormInit /\ [][RunsNext]_vars

\* C16: every stored normalized listing has the id of exactly one stored
\* raw listing
C16_NormalizedHasItsRaw ==
    \A n \in norm_store :
        Cardinality({r \in raw_store : r.avito_id = n.avito_id}) = 1

\* a listing normalized in one run was crawled again at a changed price
\* and a second normalization run has taken place
C16_Witness ==
    /\ norm_runs = 2
    /\ \E n \in norm_store :
          \E r \in raw_store : r.avito_id = n.avito_id /\ r.price # n.price

--------------------------------------------------------------------------
\* C17: with a page limit M > 0 a run parses at most M pages and, once page
\* M is parsed, the run is over (no next-page resolution, no transition);
\* the page-limit stop is never taken with limit 0
C17_PageLimit ==
    /\ max_pages > 0 => pages_parsed <= max_pages
    /\ (max_pages > 0 /\ pages_parsed >= max_pages) => pc \in Ended
    /\ stop_reason = "max_pages_reached" =>
          (max_pages > 0 /\ pages_parsed = max_pages)

\* a run with limit 2 over a catalog that links to a third page was
\* stopped by the limit
C17_Witness ==
    /\ stop_reason = "max_pages_reached"
    /\ max_pages = 2
    /\ pages_parsed = 2
    /\ total_pages > 2

--------------------------------------------------------------------------
StoredIds(store) == {r.avito_id : r \in store}

--------------------------------------------------------------------------
\* The order of a pass, over the kinds of answer that decide it: a transport
\* error, a refused request, an answer without JSON, answers with results
\* for one and for both listings of a batch
OrderResponses ==
    {Http("client_error", 0, FALSE, <<>>),
     Http("response", 500, FALSE, <<>>),
     Http("response", 200, TRUE, <<Tok("text")>>),
     Http("response", 200, TRUE, <<Tok("["), Item(1), Tok("]")>>),
     Http("response", 200, TRUE, <<Tok("["), Item(1), Item(2), Tok("]")>>),
     Http("response", 200, TRUE, <<Tok("["), Item(MaxRaw + 1), Item(2), Tok("]")>>)}

BatchesNext == NormStart \/ ProcessBatchOver(OrderResponses)

SpecBatches == NormInit /\ [][BatchesNext]_vars

RECURSIVE Flatten(_)
Flatten(seqs) == IF seqs = <<>> THEN <<>> ELSE Head(seqs) \o Flatten(Tail(seqs))

\* C20: the batches are the un-normalized listings in order, cut into
\* pieces of 1..batch_size listings; the first request of batch k > 1
\* comes right after the delay that follows batch k - 1, the write of a
\* batch right after its request, a delay only after a batch that is not
\* the last; a finished pass ends with the last batch, not with a delay
C20_BatchesInOrder ==
    /\ [][norm_runs' = norm_runs + 1 =>
            /\ Flatten(batches') =
                  GetRawProductsWithoutNormalization(raw_store, norm_store)
            /\ NoDuplicateIds(Flatten(batches'))
            /\ \A b \in DOMAIN batches' :
                  Len(batches'[b]) >= 1 /\ Len(batches'[b]) <= batch_size]_vars
    /\ [][batch_index' # batch_index =>
            \/ batch_index' = batch_index + 1
            \/ norm_runs' = norm_runs + 1]_vars
    /\ [](\A i \in DOMAIN norm_trace :
            LET e == norm_trace[i]
            IN  /\ e.ev = "request" =>
                      \/ i = 1 /\ e.k = 1
                      \/ i > 1 /\ norm_trace[i - 1] = Event("delay", e.k - 1)
                /\ e.ev = "persisted" =>
                      i > 1 /\ norm_trace[i - 1] = Event("request", e.k)
                /\ e.ev = "delay" =>
                      /\ e.k < Len(batches)
                      /\ i > 1
                      /\ norm_trace[i - 1] \in {Event("request", e.k),
                                                Event("persisted", e.k)})
    /\ []((norm_pc = "done" /\ batches # <<>>) =>
            /\ norm_trace # <<>>
            /\ norm_trace[Len(norm_trace)].ev # "delay"
            /\ norm_trace[Len(norm_trace)].k = Len(batches))

\* three listings in batches of two: both batches written, one delay
C20_Witness ==
    /\ norm_pc = "done"
    /\ Len(batches) = 2
    /\ Len(batches[1]) = 2
    /\ norm_trace = <<Event("request", 1), Event("persisted", 1),
                      Event("delay", 1), Event("request", 2),
                      Event("persisted", 2)>>

--------------------------------------------------------------------------
\* C21: a batch produces and writes records only for ids of the batch; a
\* listing of the batch without a produced record has no normalized
\* record; the next pass submits every raw listing that has none
C21_UnmatchedIsResubmitted ==
    /\ [](/\ Ids(last_produced) \subseteq Ids(last_batch)
          /\ StoredIds(norm_store) \ StoredIds(store_before)
                \subseteq Ids(last_batch)
          /\ \A i \in DOMAIN last_batch :
                last_batch[i].avito_id \notin Ids(last_produced) =>
                    last_batch[i].avito_id \notin StoredIds(norm_store))
    /\ [][norm_runs' = norm_runs + 1 =>
            StoredIds(raw_store) \ StoredIds(norm_store)
                = Ids(Flatten(batches'))]_vars

\* the answer for a batch of two held a result for an id outside the batch
\* and one for the second listing; the second pass has the first listing
\* in its only batch
C21_Witness ==
    /\ norm_runs = 2
    /\ norm_pc = "batch"
    /\ Ids(Flatten(batches)) = {1}
    /\ StoredIds(norm_store) = {2}
    /\ StoredIds(raw_store) = {1, 2}

--------------------------------------------------------------------------
\* Writes that can fail, on one connection: two listings at two prices
TxnProducts ==
    {[avito_id |-> i, title |-> "T", price |-> v, url |-> "/item",
      scraped_at |-> 1] : i \in 1..2, v \in {10, 20}}

TxnBatches == UNION {[1..n -> TxnProducts] : n \in 0..2}

TxnNext ==
    \/ StoreSaveRawProductOver(TxnProducts, BOOLEAN)
    \/ StoreSaveRawProductsOver(TxnBatches, TRUE)

SpecTxn == CrawlInit /\ [][TxnNext]_vars

\* C23: a batch write that failed left the table as it was before the
\* call, and a write that succeeds afterwards commits its own rows on top
\* of what was committed, nothing of the failed batch
C23_BatchWriteIsAtomic ==
    /\ [](st_failed => raw_store = st_before)
    /\ [][(st_failed /\ ~st_failed' /\ st_last' # <<>>) =>
            st_committed' = SaveRawProducts(st_committed, st_last')]_vars

--------------------------------------------------------------------------
\* C24: the crawl leaves through the pagination-cycle exit exactly when
\* the duplicates of the page just parsed are more than 0.8 of its
\* listings; a page with exactly 0.8 duplicates does not stop the crawl
C24_CycleStopsAboveThreshold ==
    (pages_parsed > 0 /\ stop_reason # "save_raw_products_failed") =>
        (stop_reason = "pagination_cycle" <=>
            /\ last_page.total > 0
            /\ last_page.duplicates * ThresholdDen >
                   ThresholdNum * last_page.total)

\* C25: the second of two consecutive pages without listings ends the
\* crawl; after a single empty page the crawl goes on to look for the next
\* page unless the page limit or the last page ends it; a page with
\* listings after which the crawl goes on leaves the count of empty
\* pages at zero
C25_TwoEmptyPagesStop ==
    /\ [](consecutive_empty_pages <= MAX_EMPTY_PAGES)
    /\ [][(pages_parsed' = pages_parsed + 1) =>
            LET empty == last_page'.total = 0
                after == StopAfterPage(max_pages, current_page_num, total_pages)
            IN  /\ (empty /\ consecutive_empty_pages = 1) =>
                       /\ stop_reason' = "too_many_empty_pages"
                       /\ pc' = "done"
                /\ (empty /\ consecutive_empty_pages = 0) =>
                       /\ consecutive_empty_pages' = 1
                       /\ stop_reason' # "too_many_empty_pages"
                       /\ after = "" => pc' = "find"
                /\ (~empty /\ pc' \notin Ended) => consecutive_empty_pages' = 0
                /\ stop_reason' = "too_many_empty_pages" =>
                       (empty /\ consecutive_empty_pages = 1)]_vars

\* a page with listings, then two empty pages
C25_Witness ==
    /\ stop_reason = "too_many_empty_pages"
    /\ pc = "done"
    /\ pages_parsed = 3
    /\ seen_avito_ids # {}

--------------------------------------------------------------------------
\* C26: a page in a challenge is classified again in place, without a
\* reload, at most MAX_CLOUDFLARE_RETRIES times and once more at the end;
\* a page still in the challenge then is handed to the unblock loop, which
\* reloads it, instead of the navigation failing at once
C26_ChallengeFallsBackToUnblock ==
    (/\ br_nav.called /\ br_nav.has_page /\ br_nav.goto_ok
     /\ \A i \in 1..(MAX_CLOUDFLARE_RETRIES + 1) : br_nav.sts[i] = "cloudflare")
        => /\ Len(br_nav.sts) = MAX_CLOUDFLARE_RETRIES + 1
           /\ ~(~br_nav.success /\ br_nav.loads <= 1)

--------------------------------------------------------------------------
\* C27: a batch whose classifier answer cannot be parsed is given up only
\* when the request has been sent as many times as max_retries allows: an
\* unparsable answer to an earlier attempt makes the wrapper send the
\* request again
C27_UnparsableAnswerIsRetried ==
    [][(/\ norm_pc = "batch"
        /\ ai_attempt' # ai_attempt + 1
        /\ last_failure' = "unparsable")
          => ai_attempt >= ai_max_retries]_vars

--------------------------------------------------------------------------
\* C28: within one pass of normalize_all no id has more than one
\* NormalizedProduct, neither among the records one batch produces nor in
\* the list the pass returns, whatever ids the answers repeat
C28_OnePerIdPerPass ==
    /\ NoDuplicateIds(last_produced)
    /\ NoDuplicateIds(all_normalized)

--------------------------------------------------------------------------
\* C29: when close has returned, the context, the browser and the driver
\* are released and the four handles are cleared, whichever close call
\* failed
C29_CloseReleasesEverything ==
    [][br_closes' = br_closes + 1 =>
          (br' = NoHandles /\ br_live' = {})]_vars

--------------------------------------------------------------------------
\* C30: the crawl looks for a next page only while the cursor is below the
\* detected page count, and the last-page stop is taken with the cursor at
\* or past it; the count changes only when a run starts or a page
\* transition succeeded; after each successful transition the count is
\* probed: a probe that found buttons replaces the count, larger or
\* smaller, a probe that found none leaves it as it was
C30_TotalPagesReprobed ==
    /\ []((pc \in {"find", "goto"} /\ total_pages > 0) =>
             current_page_num < total_pages)
    /\ [](stop_reason = "last_page_reached" =>
             (pc = "done" /\ total_pages > 0 /\ current_page_num >= total_pages))
    /\ [][(pc = "goto" /\ pc' = "parse") =>
             /\ current_page_num' = current_page_num + 1
             /\ last_probe'.probed
             /\ last_probe'.total > 0 => total_pages' = last_probe'.total
             /\ last_probe'.total = 0 => total_pages' = total_pages]_vars
    /\ [][total_pages' # total_pages =>
             (runs' = runs + 1 \/ (pc = "goto" /\ pc' = "parse"))]_vars

\* the third page was reached with a count of 3 detected and the probe
\* after the transition found no buttons
C30_Witness ==
    /\ pc = "parse"
    /\ current_page_num = 3
    /\ total_pages = 3
    /\ last_probe = [probed |-> TRUE, total |-> 0]

--------------------------------------------------------------------------
\* _wait_for_element_with_retry called on its own. Each attempt that does
\* not end the wait sees the element absent on a page that is not blocked
\* and reloads the page; the reload succeeds or raises (lines 465-478:
\* the failure is logged and the wait goes on)
AbsentKinds == {"absent", "absent_reload_failed"}

\* the look k ends the wait with last; of the reloads before it the one
\* after look f raises (f = 0: none does)
WaitRuns ==
    {[i \in 1..MAX_ELEMENT_RETRIES |->
         IF i >= k THEN last
         ELSE IF i = f THEN "absent_reload_failed" ELSE "absent"] :
        k \in 1..MAX_ELEMENT_RETRIES, last \in {"found", "blocked", "absent"},
        f \in 0..(MAX_ELEMENT_RETRIES - 1)}

WaitForElementCall ==
    /\ \E obs \in WaitRuns :
         LET r == WaitForElementWithRetry(obs)
         IN  br_wait' = [called |-> TRUE, obs |-> obs, found |-> r.found,
                         waits |-> r.waits, reloads |-> r.reloads]
    /\ UNCHANGED <<br, br_live, br_launches, br_closes, br_last, br_nav,
                   br_check>>
    /\ UNCHANGED notBrowser

SpecWait == CrawlInit /\ [][WaitForElementCall]_vars

\* C31: the wait for the catalog container looks for it at most
\* MAX_ELEMENT_RETRIES times and reloads the page once between two looks,
\* so at most MAX_ELEMENT_RETRIES - 1 times; it ends at the first look
\* that finds the container (success) or sees the page blocked (failure,
\* no reload after it), and fails after the last look without a reload
C31_WaitIsBounded ==
    br_wait.called =>
        LET obs == br_wait.obs
            n == br_wait.waits
        IN  /\ n \in 1..MAX_ELEMENT_RETRIES
            /\ br_wait.reloads = n - 1
            /\ br_wait.reloads <= MAX_ELEMENT_RETRIES - 1
            /\ \A i \in 1..(n - 1) : obs[i] \in AbsentKinds
            /\ br_wait.found <=> obs[n] = "found"
            /\ (n < MAX_ELEMENT_RETRIES /\ ~br_wait.found) => obs[n] = "blocked"

\* the page was seen blocked at the third look, after two reloads
C31_Witness ==
    /\ br_wait.called
    /\ br_wait.obs[3] = "blocked"
    /\ br_wait.waits = 3
    /\ br_wait.reloads = 2
    /\ ~br_wait.found

--------------------------------------------------------------------------
\* C32: an exception that is not an instance of the configured classes
\* ends the call in the invocation that raised it: it is the exception the
\* wrapper raises, no invocation and no wait follows it
C32_OtherExceptionNotRetried ==
    \A i \in DOMAIN rt_history :
        rt_history[i].kind = "other" =>
            /\ i = Len(rt_history)
            /\ rt_pc = "raised"
            /\ rt_result.exc = rt_history[i].exc
            /\ Len(rt_sleeps) = i - 1

\* the second invocation raised an exception outside the configured
\* classes although another attempt was left
C32_Witness ==
    /\ rt_max_retries = 3
    /\ Len(rt_history) = 2
    /\ rt_history[1].kind = "matching"
    /\ rt_history[2].kind = "other"
    /\ rt_pc = "raised"

RECURSIVE Pow(_, _)
Pow(b, e) == IF e = 0 THEN 1 ELSE b * Pow(b, e - 1)

\* C33: with max_retries = N >= 1 and every invocation failing with a
\* configured exception there are N invocations and N - 1 waits, one after
\* each failure but the last; the k-th wait lasts delay *
\* backoff_factor^(k-1); a call that has ended, by a result or by an
\* exception, has waited once less than it has invoked
C33_ExactAttemptsAndWaits ==
    /\ (rt_max_retries >= 1 /\ AllMatching(rt_history)) =>
          /\ Len(rt_history) <= rt_max_retries
          /\ rt_pc = "calling" => Len(rt_sleeps) = Len(rt_history)
          /\ rt_pc = "raised" =>
                /\ Len(rt_history) = rt_max_retries
                /\ Len(rt_sleeps) = rt_max_retries - 1
    /\ \A k \in DOMAIN rt_sleeps :
          rt_sleeps[k] = rt_delay0 * Pow(rt_backoff, k - 1)
    /\ (rt_pc \in {"returned", "raised"} /\ rt_history # <<>>) =>
          Len(rt_sleeps) = Len(rt_history) - 1

\* three failing invocations with delay 2 and factor 2: waits of 2 and 4
C33_Witness ==
    /\ rt_pc = "raised"
    /\ rt_max_retries = 3
    /\ AllMatching(rt_history)
    /\ rt_delay0 = 2
    /\ rt_backoff = 2
    /\ rt_sleeps = <<2, 4>>

\* C36: the wrapper returns normally only after an invocation that
\* returned, and with that invocation's result, whatever max_retries is
C36_ReturnsOnlyOwnResult ==
    rt_pc = "returned" =>
        /\ rt_history # <<>>
        /\ rt_history[Len(rt_history)].kind = "ok"
        /\ rt_result = [exc |-> "", val |-> rt_history[Len(rt_history)].val]

--------------------------------------------------------------------------
\* BrowserService._check_page_status, called in whatever state the service
\* is in, on a page that shows any of PageObs
CheckPageStatusCall ==
    /\ \E obs \in PageObs :
         br_check' = [called |-> TRUE, has_page |-> br.page, obs |-> obs,
                      status |-> CheckPageStatus(br.page, obs)]
    /\ UNCHANGED <<br, br_live, br_launches, br_closes, br_last, br_nav,
                   br_wait>>
    /\ UNCHANGED notBrowser

StatusNext == BrowserLaunchCall \/ BrowserCloseCall \/ CheckPageStatusCall

SpecStatus == CrawlInit /\ [][StatusNext]_vars

\* C34: the status of a loaded page is decided in a fixed order: blocked
\* when the title holds a blocked phrase, else challenge when it holds a
\* challenge phrase, else ok when a catalog DOM marker is present, else
\* unknown
C34_StatusByFixedPriority ==
    (br_check.called /\ br_check.has_page /\ ~br_check.obs.raises) =>
        br_check.status =
            IF br_check.obs.blocked_phrase THEN "blocked"
            ELSE IF br_check.obs.cf_phrase THEN "cloudflare"
            ELSE IF br_check.obs.marker THEN "ok"
            ELSE "unknown"

--------------------------------------------------------------------------
\* C35: a run starts from nothing the previous run left: the seen-set is
\* empty, the visited set holds at most the start page, the page count is
\* what the first probe finds, the cursor is on page 1 and the result list
\* is empty; every listing of the first page parsed counts as new, and
\* the new listings of a page are written with the time of this run,
\* whether earlier runs stored them or not
C35_RunStartsFromNothing ==
    /\ [][runs' = runs + 1 =>
            /\ seen_avito_ids' = {}
            /\ visited_urls' \subseteq {NormalizeUrlForComparison(category_url)}
            /\ total_pages' \in TotalPagesOutcomes
            /\ current_page_num' = 1
            /\ all_products' = <<>>]_vars
    /\ [][(pages_parsed = 0 /\ pages_parsed' = 1) =>
            last_new_ids' = extracted_ids']_vars
    /\ [][(pages_parsed' = pages_parsed + 1
           /\ stop_reason' # "save_raw_products_failed") =>
            \A id \in last_new_ids' :
               \E r \in raw_store' :
                  /\ r.avito_id = id
                  /\ r.scraped_at = SerializeDatetime(runs)]_vars

\* the second run has stored listing 1 again, next to listing 5 that only
\* the first run stored
C35_Witness ==
    /\ runs = 2
    /\ pages_parsed = 1
    /\ 1 \in last_new_ids
    /\ \E r \in raw_store : r.avito_id = 1 /\ r.scraped_at = SerializeDatetime(2)
    /\ \E r \in raw_store : r.avito_id = 5 /\ r.scraped_at = SerializeDatetime(1)

--------------------------------------------------------------------------
\* the first product of a page with the given id
FirstOccurrence(products, id) ==
    products[CHOOSE i \in DOMAIN products :
                /\ products[i].avito_id = id
                /\ \A j \in 1..(i - 1) : products[j].avito_id # id]

\* C37: parsing a page leaves the stored record of every id the run had
\* seen before as it was, whatever the page says about that id; for an id
\* new to the run the record written is the first occurrence on the page;
\* records of ids the page does not list are not touched
C37_FirstOccurrencePersisted ==
    [][(pages_parsed' = pages_parsed + 1
        /\ stop_reason' # "save_raw_products_failed") =>
          LET products == last_page'.products
          IN  /\ \A id \in Ids(products) :
                    IF id \in seen_avito_ids
                    THEN RowsOf(raw_store', id) = RowsOf(raw_store, id)
                    ELSE RowsOf(raw_store', id) =
                            {[FirstOccurrence(products, id) EXCEPT
                                 !.scraped_at = SerializeDatetime(@)]}
              /\ \A r \in raw_store :
                    r.avito_id \notin Ids(products) => r \in raw_store']_vars

\* listing 1 was stored at price 20 from the first page; the second page
\* of the run lists it at price 10 and the record still says 20
C37_Witness ==
    /\ runs = 1
    /\ pages_parsed = 2
    /\ last_page.total >= 4
    /\ last_page.products[1].avito_id = 1
    /\ last_page.products[1].price = 10
    /\ 1 \notin last_new_ids
    /\ \E r \in raw_store : r.avito_id = 1 /\ r.price = 20

--------------------------------------------------------------------------
\* C39: the first page parsed in a run never ends it by the
\* pagination-cycle stop; the duplicates of a page are its products whose
\* id an earlier page of the run had put into the seen-set
C39_NoCycleStopOnFirstPage ==
    /\ [](pages_parsed = 1 => stop_reason # "pagination_cycle")
    /\ [][pages_parsed' = pages_parsed + 1 =>
            last_page'.duplicates =
               Cardinality({i \in DOMAIN last_page'.products :
                  last_page'.products[i].avito_id \in seen_avito_ids})]_vars

--------------------------------------------------------------------------
\* C38: a pass of normalize_all submits no id that has a normalized
\* record and leaves every normalized record it found as it was; a crawl
\* that stores a listing again changes the raw record only
C38_NormalizedOnce ==
    /\ [][norm_runs' = norm_runs + 1 =>
            /\ Ids(GetRawProductsWithoutNormalization(raw_store, norm_store))
                  \cap StoredIds(norm_store) = {}
            /\ \A n \in norm_store : n \in norm_store']_vars
    /\ [][raw_store' # raw_store => norm_store' = norm_store]_vars

\* listing 1 was normalized by the first pass at price 10, crawled again
\* at price 15, and after the second pass its record is that of the first
C38_Witness ==
    /\ norm_runs = 2
    /\ \E n \in norm_store :
          /\ n.avito_id = 1
          /\ n.price = 10
          /\ n.normalized_at = SerializeDatetime(1)
    /\ \E r \in raw_store : r.avito_id = 1 /\ r.price = 15

--------------------------------------------------------------------------
\* C40: when the first navigation of the crawl fails, scrape_all returns
\* the empty list: no page is parsed, nothing is written to raw_products,
\* no page identity is recorded and no exception is raised; run_pipeline
\* goes on to the normalization stage, and to the export stage when that
\* one returns
C40_FailedFirstNavigation ==
    /\ [][(pl_pc = "crawl" /\ stop_reason' = "initial_navigation_failed") =>
            /\ pc' = "done"
            /\ all_products' = <<>>
            /\ pages_parsed' = 0
            /\ persisted_ids' = {}
            /\ visited_urls' = {}
            /\ raw_store' = raw_store
            /\ pl_exc' = ""
            /\ pl_pc' = "normalize"]_vars
    /\ [][(pl_pc = "normalize" /\ pl_pc' # "normalize" /\ pl_exc' = "") =>
            pl_pc' = "export"]_vars

\* the crawl ended with the failed first navigation and the pipeline has
\* reached the export stage
C40_Witness ==
    /\ stop_reason = "initial_navigation_failed"
    /\ pl_pc = "export"
    /\ pl_exc = ""
    /\ all_products = <<>>

====
